---- MODULE Spec2Model ----
(***************************************************************************)
(* Model of the Gmail MCP server's service layer (src/src/services/gmail.ts *)
(* and the attachment-aware copy of it in src/src/tools/write.ts): the      *)
(* message codec (extractBody, extractAttachments, buildRawMessage, the     *)
(* base64url and UTF-8 conversions) and the API functions that use it.      *)
(*                                                                         *)
(* A JavaScript string is modelled as the sequence of its UTF-16 code       *)
(* units (numbers), a Buffer as a sequence of bytes 0..255.  An optional    *)
(* property of an object is a record field that is present or not           *)
(* (Has(r, "f")).                                                           *)
(***************************************************************************)
EXTENDS Integers, Sequences, FiniteSets, TLC

VARIABLES
  impl,      \* which copy of the service module runs: "gmail" (services/gmail.ts) or "write" (tools/write.ts)
  env,       \* whether the three GMAIL_* environment variables are all set
  gmail,     \* the module-level cached client: "unset" or "client"
  constructions, \* the outcome of each getGmailClient() call so far, in order: TRUE for a client, FALSE for a throw
  pc,        \* position of the API call in flight: "idle", "awaitFull", "awaitMeta", "awaitSend", "awaitDraft", "awaitList", "awaitAll", "awaitLabels", "done"
  call,      \* the API call in flight or last finished: its name and arguments
  fetched,   \* the provider's response to the call's messages.get request (or NoValue)
  options,   \* the options object handed to buildRawMessage by the call (or NoValue)
  built,     \* what buildRawMessage returned to the call (or NoValue)
  requests,  \* the requests the call has issued to the provider, in order
  result     \* the call's outcome: NoValue while running, then [ok |-> ..., ...]

vars == <<impl, env, gmail, constructions, pc, call, fetched, options, built, requests, result>>

Has(r, f) == f \in DOMAIN r

\* the value of an absent object / unset slot
NoValue == [none |-> TRUE]

\* an argument that may be undefined: Undefined, or Defined(v)
Undefined == [defined |-> FALSE]
Defined(v) == [defined |-> TRUE, value |-> v]

----------------------------------------------------------------------------
(* String helpers (JavaScript String.prototype)                            *)

\* a function on 1..n as a sequence value
AsSeq(f) == f \o <<>>

\* s.startsWith(p)
StartsWith(s, p) == Len(s) >= Len(p) /\ SubSeq(s, 1, Len(p)) = p

\* whether p occurs in s at (1-based) position i
MatchAt(s, i, p) == i + Len(p) - 1 <= Len(s) /\ SubSeq(s, i, i + Len(p) - 1) = p

\* code unit of an ASCII letter, lower-cased (String.prototype.toLowerCase on ASCII)
LowerUnit(c) == IF c >= 65 /\ c <= 90 THEN c + 32 ELSE c

toLowerCase(s) == AsSeq([i \in 1..Len(s) |-> LowerUnit(s[i])])

\* the concatenation of the sequences ss[lo], ..., ss[hi]
RECURSIVE FlattenRange(_, _, _)
FlattenRange(ss, lo, hi) ==
  IF lo > hi THEN <<>>
  ELSE IF lo = hi THEN ss[lo]
  ELSE LET mid == (lo + hi) \div 2 IN
    FlattenRange(ss, lo, mid) \o FlattenRange(ss, mid + 1, hi)

\* the concatenation of a sequence of sequences
Flatten(ss) == FlattenRange(ss, 1, Len(ss))

\* lines.join(sep)
Join(lines, sep) ==
  Flatten([i \in 1..Len(lines) |-> IF i = 1 THEN lines[i] ELSE sep \o lines[i]])

----------------------------------------------------------------------------
(* UTF-8: Buffer.from(string, "utf-8") and buffer.toString("utf-8")        *)

IsHighSurrogate(c) == c >= 55296 /\ c <= 56319
IsLowSurrogate(c) == c >= 56320 /\ c <= 57343

\* bytes of one code point
Utf8Bytes(cp) ==
  IF cp < 128 THEN <<cp>>
  ELSE IF cp < 2048 THEN <<192 + (cp \div 64), 128 + (cp % 64)>>
  ELSE IF cp < 65536 THEN <<224 + (cp \div 4096), 128 + ((cp \div 64) % 64), 128 + (cp % 64)>>
  ELSE <<240 + (cp \div 262144), 128 + ((cp \div 4096) % 64),
         128 + ((cp \div 64) % 64), 128 + (cp % 64)>>

\* the bytes written for the code unit at position i: a surrogate pair is written
\* at its first unit, an unpaired surrogate as U+FFFD (EF BF BD)
Utf8At(s, i) ==
  IF IsHighSurrogate(s[i]) /\ i < Len(s) /\ IsLowSurrogate(s[i + 1])
    THEN Utf8Bytes(65536 + (s[i] - 55296) * 1024 + (s[i + 1] - 56320))
  ELSE IF IsLowSurrogate(s[i]) /\ i > 1 /\ IsHighSurrogate(s[i - 1]) THEN <<>>
  ELSE IF IsHighSurrogate(s[i]) \/ IsLowSurrogate(s[i]) THEN <<239, 191, 189>>
  ELSE Utf8Bytes(s[i])

\* Buffer.from(s, "utf-8").  A code unit below 128 is written as itself, so the
\* text before the first and after the last other code unit is copied.
Utf8Encode(s) ==
  LET W == {i \in 1..Len(s) : s[i] >= 128} IN
  IF W = {} THEN s
  ELSE LET lo == CHOOSE i \in W : \A j \in W : i <= j
           hi == CHOOSE i \in W : \A j \in W : i >= j
       IN SubSeq(s, 1, lo - 1)
          \o FlattenRange([i \in 1..Len(s) |-> Utf8At(s, i)], lo, hi)
          \o SubSeq(s, hi + 1, Len(s))

\* code units of one decoded code point
CodeUnits(cp) ==
  IF cp < 65536 THEN <<cp>>
  ELSE <<55296 + ((cp - 65536) \div 1024), 56320 + ((cp - 65536) % 1024)>>

ContOk(b, j, lo, hi) == j <= Len(b) /\ b[j] >= lo /\ b[j] <= hi

\* the code point decoded at byte i and the index of the next byte to decode;
\* an ill-formed sequence gives U+FFFD (65533) for its maximal well-formed prefix
Utf8Step(b, i) ==
  LET c == b[i]
      bad(n) == [cp |-> 65533, next |-> n]
  IN
  IF c < 128 THEN [cp |-> c, next |-> i + 1]
  ELSE IF c >= 194 /\ c <= 223 THEN
    IF ContOk(b, i + 1, 128, 191)
      THEN [cp |-> (c - 192) * 64 + (b[i + 1] - 128), next |-> i + 2]
      ELSE bad(i + 1)
  ELSE IF c >= 224 /\ c <= 239 THEN
    IF ~ContOk(b, i + 1, IF c = 224 THEN 160 ELSE 128, IF c = 237 THEN 159 ELSE 191)
      THEN bad(i + 1)
    ELSE IF ~ContOk(b, i + 2, 128, 191) THEN bad(i + 2)
    ELSE [cp |-> (c - 224) * 4096 + (b[i + 1] - 128) * 64 + (b[i + 2] - 128),
          next |-> i + 3]
  ELSE IF c >= 240 /\ c <= 244 THEN
    IF ~ContOk(b, i + 1, IF c = 240 THEN 144 ELSE 128, IF c = 244 THEN 143 ELSE 191)
      THEN bad(i + 1)
    ELSE IF ~ContOk(b, i + 2, 128, 191) THEN bad(i + 2)
    ELSE IF ~ContOk(b, i + 3, 128, 191) THEN bad(i + 3)
    ELSE [cp |-> (c - 240) * 262144 + (b[i + 1] - 128) * 4096
                 + (b[i + 2] - 128) * 64 + (b[i + 3] - 128),
          next |-> i + 4]
  ELSE bad(i + 1)

IsContinuation(c) == c >= 128 /\ c <= 191

\* whether the decoder starts a new code point at byte i: always at a byte that
\* is no continuation byte; at a continuation byte unless the sequence begun at
\* the nearest earlier non-continuation byte (at most 3 back) reaches over it
IsStart(b, i) ==
  IF ~IsContinuation(b[i]) THEN TRUE
  ELSE LET p == IF i > 1 /\ ~IsContinuation(b[i - 1]) THEN i - 1
                ELSE IF i > 2 /\ ~IsContinuation(b[i - 2]) THEN i - 2
                ELSE IF i > 3 /\ ~IsContinuation(b[i - 3]) THEN i - 3
                ELSE 0
       IN p = 0 \/ Utf8Step(b, p).next <= i

\* buffer.toString("utf-8").  A byte below 128 is read as itself, so the bytes
\* before the first and after the last other byte are copied.
Utf8Decode(b) ==
  LET W == {i \in 1..Len(b) : b[i] >= 128} IN
  IF W = {} THEN b
  ELSE LET lo == CHOOSE i \in W : \A j \in W : i <= j
           hi == CHOOSE i \in W : \A j \in W : i >= j
       IN SubSeq(b, 1, lo - 1)
          \o FlattenRange([i \in 1..Len(b) |->
                             IF IsStart(b, i) THEN CodeUnits(Utf8Step(b, i).cp) ELSE <<>>],
                          lo, hi)
          \o SubSeq(b, hi + 1, Len(b))

----------------------------------------------------------------------------
(* base64: Buffer.from(string, "base64url"), buffer.toString("base64url"), *)
(* buffer.toString("base64")                                               *)

\* the 6-bit value of a base64 character, -1 for any other code unit; the
\* decoder accepts both alphabets ("+/" and "-_")
unbase64(c) ==
  IF c >= 65 /\ c <= 90 THEN c - 65
  ELSE IF c >= 97 /\ c <= 122 THEN c - 71
  ELSE IF c >= 48 /\ c <= 57 THEN c + 4
  ELSE IF c = 43 \/ c = 45 THEN 62
  ELSE IF c = 47 \/ c = 95 THEN 63
  ELSE -1

\* where the decoder stops reading: at the first "=" (61), else past the end
StopIndex(data) ==
  LET E == {i \in 1..Len(data) : data[i] = 61} IN
  IF E = {} THEN Len(data) + 1 ELSE CHOOSE i \in E : \A j \in E : i <= j

\* the 6-bit values the decoder reads: characters outside the alphabet are
\* skipped, and the first "=" ends the input
Sextets(data) ==
  LET skipped == {i \in 1..Len(data) : unbase64(data[i]) < 0}
      read == IF skipped = {} THEN data
              ELSE SelectSeq(SubSeq(data, 1, StopIndex(data) - 1),
                             LAMBDA c : unbase64(c) >= 0)
  IN AsSeq([i \in 1..Len(read) |-> unbase64(read[i])])

\* 2 to the power n, for the even n in 0..10
Pow2(n) == CASE n = 0 -> 1 [] n = 2 -> 4 [] n = 4 -> 16 [] n = 6 -> 64 [] n = 8 -> 256
             [] n = 10 -> 1024

\* the bytes of 6-bit values: 4 values give 3 bytes, a final group of 3 gives 2,
\* of 2 gives 1, and a single left-over value gives none.  Byte k holds the
\* bits 8(k-1) .. 8k-1 of the concatenated values.
SextetsToBytes(v) ==
  LET n == Len(v) IN
  AsSeq([k \in 1..((n * 6) \div 8) |->
     LET offset == (k - 1) * 8
         j == (offset \div 6) + 1
         shift == offset % 6
         third == IF j + 2 <= n THEN v[j + 2] ELSE 0
     IN ((v[j] * 4096 + v[j + 1] * 64 + third) \div Pow2(10 - shift)) % 256])

\* Buffer.from(data, "base64url")
Base64Decode(data) == SextetsToBytes(Sextets(data))

\* the character of a 6-bit value in the URL-safe alphabet
Base64UrlChar(v) ==
  IF v < 26 THEN v + 65
  ELSE IF v < 52 THEN v + 71
  ELSE IF v < 62 THEN v - 4
  ELSE IF v = 62 THEN 45 ELSE 95

\* the character of a 6-bit value in the standard alphabet
Base64Char(v) ==
  IF v < 62 THEN Base64UrlChar(v) ELSE IF v = 62 THEN 43 ELSE 47

\* the 6-bit values of bytes (a final partial group is filled with zero bits).
\* Value j holds the bits 6(j-1) .. 6j-1 of the concatenated bytes.
BytesToSextets(b) ==
  LET n == Len(b) IN
  AsSeq([j \in 1..((n * 8 + 5) \div 6) |->
     LET offset == (j - 1) * 6
         k == (offset \div 8) + 1
         shift == offset % 8
         second == IF k + 1 <= n THEN b[k + 1] ELSE 0
     IN ((b[k] * 256 + second) \div Pow2(10 - shift)) % 64])

\* buffer.toString("base64url"): URL-safe alphabet, no padding
Base64UrlEncode(b) ==
  LET v == BytesToSextets(b) IN AsSeq([i \in 1..Len(v) |-> Base64UrlChar(v[i])])

\* buffer.toString("base64"): standard alphabet, padded with "=" to a multiple of 4
Base64Encode(b) ==
  LET v == BytesToSextets(b)
      pad == (4 - (Len(v) % 4)) % 4
      n == Len(v)
  IN AsSeq([i \in 1..(n + pad) |-> IF i <= n THEN Base64Char(v[i]) ELSE 61])

\* a variant of decodeBase64Url that reads each byte as one character
\* (buffer.toString("latin1"))
decodeBase64UrlLatin1(data) == Base64Decode(data)

\* Buffer.from(data, "base64url").toString("utf-8")
decodeBase64Url(data) == Utf8Decode(Base64Decode(data))

\* Buffer.from(data, "utf-8").toString("base64url")
encodeBase64Url(data) == Base64UrlEncode(Utf8Encode(data))

----------------------------------------------------------------------------
(* stripHtmlTags                                                           *)

\* "\n"
STR_LF == <<10>>
\* "\n\n"
STR_LFLF == <<10, 10>>
\* " "
STR_Sp == <<32>>
\* "</p>"
STR_CloseP == <<60, 47, 112, 62>>
\* "</div>"
STR_CloseDiv == <<60, 47, 100, 105, 118, 62>>
\* "&nbsp;"
STR_Nbsp == <<38, 110, 98, 115, 112, 59>>
\* "&amp;"
STR_Amp == <<38, 97, 109, 112, 59>>
\* "&lt;"
STR_Lt == <<38, 108, 116, 59>>
\* "&gt;"
STR_Gt == <<38, 103, 116, 59>>
\* "&quot;"
STR_Quot == <<38, 113, 117, 111, 116, 59>>
\* "&#39;"
STR_Apos == <<38, 35, 51, 57, 59>>

\* the regular expression class \s, which is also what trim() removes
IsSpace(c) ==
  \/ c \in {9, 10, 11, 12, 13, 32, 160, 5760, 8232, 8233, 8239, 8287, 12288, 65279}
  \/ (c >= 8192 /\ c <= 8202)

\* number of \s code units in s from position i on
RECURSIVE SpaceRun(_, _)
SpaceRun(s, i) ==
  IF i <= Len(s) /\ IsSpace(s[i]) THEN 1 + SpaceRun(s, i + 1) ELSE 0

\* position of the first ">" (62) in s at or after i, 0 when there is none
RECURSIVE FirstGt(_, _)
FirstGt(s, i) ==
  IF i > Len(s) THEN 0 ELSE IF s[i] = 62 THEN i ELSE FirstGt(s, i + 1)

\* length of the match of /<br\s*\/?>/i at position i, 0 when it does not match there
BrMatchLen(s, i) ==
  IF ~(i + 2 <= Len(s) /\ s[i] = 60 /\ LowerUnit(s[i + 1]) = 98
       /\ LowerUnit(s[i + 2]) = 114)
    THEN 0
  ELSE LET j == i + 3 + SpaceRun(s, i + 3)
           k == IF j <= Len(s) /\ s[j] = 47 THEN j + 1 ELSE j
       IN IF k <= Len(s) /\ s[k] = 62 THEN k - i + 1 ELSE 0

\* length of the match of a literal pattern, letters compared ignoring case
LiteralMatchLenI(s, i, p) ==
  IF i + Len(p) - 1 <= Len(s) /\ toLowerCase(SubSeq(s, i, i + Len(p) - 1)) = p
    THEN Len(p) ELSE 0

\* length of the match of /<[^>]+>/ at position i
TagMatchLen(s, i) ==
  IF s[i] # 60 THEN 0
  ELSE LET g == FirstGt(s, i + 1) IN IF g >= i + 2 THEN g - i + 1 ELSE 0

\* length of the match at position i of the pattern named re
MatchLen(re, s, i) ==
  CASE re = "br" -> BrMatchLen(s, i)
    [] re = "tag" -> TagMatchLen(s, i)
    [] re = "/p" -> LiteralMatchLenI(s, i, STR_CloseP)
    [] re = "/div" -> LiteralMatchLenI(s, i, STR_CloseDiv)
    [] re = "nbsp" -> IF MatchAt(s, i, STR_Nbsp) THEN Len(STR_Nbsp) ELSE 0
    [] re = "amp" -> IF MatchAt(s, i, STR_Amp) THEN Len(STR_Amp) ELSE 0
    [] re = "lt" -> IF MatchAt(s, i, STR_Lt) THEN Len(STR_Lt) ELSE 0
    [] re = "gt" -> IF MatchAt(s, i, STR_Gt) THEN Len(STR_Gt) ELSE 0
    [] re = "quot" -> IF MatchAt(s, i, STR_Quot) THEN Len(STR_Quot) ELSE 0
    [] re = "apos" -> IF MatchAt(s, i, STR_Apos) THEN Len(STR_Apos) ELSE 0

\* s.replace(/re/g, rep) from position i on: leftmost matches, not overlapping
RECURSIVE ReplaceFrom(_, _, _, _)
ReplaceFrom(re, s, i, rep) ==
  IF i > Len(s) THEN <<>>
  ELSE LET n == MatchLen(re, s, i) IN
    IF n > 0 THEN rep \o ReplaceFrom(re, s, i + n, rep)
    ELSE <<s[i]>> \o ReplaceFrom(re, s, i + 1, rep)

Replace(s, re, rep) == ReplaceFrom(re, s, 1, rep)

\* s.trim()
RECURSIVE TrimEndLen(_, _)
TrimEndLen(s, n) == IF n >= 1 /\ IsSpace(s[n]) THEN TrimEndLen(s, n - 1) ELSE n

trim(s) ==
  LET a == SpaceRun(s, 1)
      z == TrimEndLen(s, Len(s))
  IN IF a >= z THEN <<>> ELSE SubSeq(s, a + 1, z)

stripHtmlTags(html) ==
  LET s1 == Replace(html, "br", STR_LF)
      s2 == Replace(s1, "/p", STR_LFLF)
      s3 == Replace(s2, "/div", STR_LF)
      s4 == Replace(s3, "tag", <<>>)
      s5 == Replace(s4, "nbsp", STR_Sp)
      s6 == Replace(s5, "amp", <<38>>)
      s7 == Replace(s6, "lt", <<60>>)
      s8 == Replace(s7, "gt", <<62>>)
      s9 == Replace(s8, "quot", <<34>>)
      s10 == Replace(s9, "apos", <<39>>)
  IN trim(s10)

----------------------------------------------------------------------------
(* getHeader, extractBody, extractAttachments                              *)

\* "text/plain"
STR_textplain == <<116, 101, 120, 116, 47, 112, 108, 97, 105, 110>>
\* "text/html"
STR_texthtml == <<116, 101, 120, 116, 47, 104, 116, 109, 108>>
\* "application/octet-stream"
STR_octetstream == <<97, 112, 112, 108, 105, 99, 97, 116, 105, 111, 110, 47, 111, 99, 116, 101, 116, 45, 115, 116, 114, 101, 97, 109>>

\* index of the first header h with h.name?.toLowerCase() === name.toLowerCase(), 0 when none
RECURSIVE FindHeader(_, _, _)
FindHeader(headers, name, i) ==
  IF i > Len(headers) THEN 0
  ELSE IF Has(headers[i], "name") /\ toLowerCase(headers[i].name) = toLowerCase(name) THEN i
  ELSE FindHeader(headers, name, i + 1)

\* a variant of getHeader that compares header names case-sensitively
getHeaderExactCase(headers, name) ==
  IF ~headers.defined THEN <<>>
  ELSE LET hit == {i \in 1..Len(headers.value) :
                     Has(headers.value[i], "name") /\ headers.value[i].name = name}
       IN IF hit = {} THEN <<>>
          ELSE LET i == CHOOSE j \in hit : \A k \in hit : j <= k IN
               IF Has(headers.value[i], "value") THEN headers.value[i].value ELSE <<>>

\* a variant of getHeader that returns the value of the last matching header
getHeaderLastMatch(headers, name) ==
  IF ~headers.defined THEN <<>>
  ELSE LET hit == {i \in 1..Len(headers.value) :
                     Has(headers.value[i], "name")
                     /\ toLowerCase(headers.value[i].name) = toLowerCase(name)}
       IN IF hit = {} THEN <<>>
          ELSE LET i == CHOOSE j \in hit : \A k \in hit : j >= k IN
               IF Has(headers.value[i], "value") THEN headers.value[i].value ELSE <<>>

\* headers is Undefined when the response carries no payload or no header list
getHeader(headers, name) ==
  IF ~headers.defined THEN <<>>
  ELSE LET i == FindHeader(headers.value, name, 1) IN
    IF i > 0 /\ Has(headers.value[i], "value") THEN headers.value[i].value ELSE <<>>

\* payload.body?.data is truthy
HasData(part) == Has(part, "body") /\ Has(part.body, "data") /\ part.body.data # <<>>

\* parts.find((p) => p.mimeType === mime): its index, 0 when none
RECURSIVE FindPart(_, _, _)
FindPart(parts, mime, i) ==
  IF i > Len(parts) THEN 0
  ELSE IF Has(parts[i], "mimeType") /\ parts[i].mimeType = mime THEN i
  ELSE FindPart(parts, mime, i + 1)

RECURSIVE extractBody(_)
RECURSIVE FirstBody(_, _)

\* a variant of FirstBody that returns what the first child yields, empty or not
FirstBodyOfFirstChild(parts, i) ==
  IF i > Len(parts) THEN <<>> ELSE extractBody(parts[i])

\* the loop "for (const part of payload.parts)" of extractBody, from child i on
FirstBody(parts, i) ==
  IF i > Len(parts) THEN <<>>
  ELSE LET body == extractBody(parts[i]) IN
    IF body # <<>> THEN body ELSE FirstBody(parts, i + 1)

extractBody(payload) ==
  IF payload = NoValue THEN <<>>
  ELSE IF HasData(payload) THEN
    LET decoded == decodeBase64Url(payload.body.data) IN
    IF Has(payload, "mimeType") /\ payload.mimeType = STR_textplain THEN decoded
    ELSE IF Has(payload, "mimeType") /\ payload.mimeType = STR_texthtml
      THEN stripHtmlTags(decoded)
    ELSE decoded
  ELSE IF Has(payload, "parts") THEN
    LET textPart == FindPart(payload.parts, STR_textplain, 1)
        htmlPart == FindPart(payload.parts, STR_texthtml, 1)
    IN
    IF textPart > 0 /\ HasData(payload.parts[textPart])
      THEN decodeBase64Url(payload.parts[textPart].body.data)
    ELSE IF htmlPart > 0 /\ HasData(payload.parts[htmlPart])
      THEN stripHtmlTags(decodeBase64Url(payload.parts[htmlPart].body.data))
    ELSE FirstBody(payload.parts, 1)
  ELSE <<>>

\* part.filename && part.filename.length > 0
HasFilename(part) == Has(part, "filename") /\ part.filename # <<>>

\* part.body?.attachmentId is truthy
HasAttachmentId(part) ==
  Has(part, "body") /\ Has(part.body, "attachmentId") /\ part.body.attachmentId # <<>>

\* the descriptor pushed for a part; only the copy in tools/write.ts records attachmentId
Descriptor(module, part) ==
  LET d == [filename |-> part.filename,
            mimeType |-> IF Has(part, "mimeType") THEN part.mimeType ELSE STR_octetstream,
            size |-> IF Has(part, "body") /\ Has(part.body, "size") THEN part.body.size ELSE 0]
  IN IF module = "write" THEN d @@ [attachmentId |-> part.body.attachmentId] ELSE d

\* the condition under which a part is pushed: services/gmail.ts asks for a
\* filename, tools/write.ts also for an attachmentId
IsListed(module, part) ==
  IF module = "write" THEN HasFilename(part) /\ HasAttachmentId(part)
  ELSE HasFilename(part)

RECURSIVE extractAttachments(_, _)
RECURSIVE AttachmentsFrom(_, _, _)

\* the loop "for (const part of payload.parts)" of extractAttachments, from child i on
AttachmentsFrom(module, parts, i) ==
  IF i > Len(parts) THEN <<>>
  ELSE (IF IsListed(module, parts[i]) THEN <<Descriptor(module, parts[i])>> ELSE <<>>)
       \o (IF Has(parts[i], "parts") THEN extractAttachments(module, parts[i]) ELSE <<>>)
       \o AttachmentsFrom(module, parts, i + 1)

extractAttachments(module, payload) ==
  IF payload = NoValue \/ ~Has(payload, "parts") THEN <<>>
  ELSE AttachmentsFrom(module, payload.parts, 1)

----------------------------------------------------------------------------
(* buildRawMessage, guessMimeType (path.basename, path.extname)            *)

\* 'To: '
STR_To == <<84, 111, 58, 32>>
\* 'Cc: '
STR_Cc == <<67, 99, 58, 32>>
\* 'Bcc: '
STR_Bcc == <<66, 99, 99, 58, 32>>
\* 'Subject: '
STR_Subject == <<83, 117, 98, 106, 101, 99, 116, 58, 32>>
\* 'Content-Type: text/plain; charset=utf-8'
STR_ContentTypeTextPlain == <<67, 111, 110, 116, 101, 110, 116, 45, 84, 121, 112, 101, 58, 32, 116, 101, 120, 116, 47, 112, 108, 97, 105, 110, 59, 32, 99, 104, 97, 114, 115, 101, 116, 61, 117, 116, 102, 45, 56>>
\* 'In-Reply-To: '
STR_InReplyTo == <<73, 110, 45, 82, 101, 112, 108, 121, 45, 84, 111, 58, 32>>
\* 'References: '
STR_References == <<82, 101, 102, 101, 114, 101, 110, 99, 101, 115, 58, 32>>
\* 'MIME-Version: 1.0'
STR_MimeVersion == <<77, 73, 77, 69, 45, 86, 101, 114, 115, 105, 111, 110, 58, 32, 49, 46, 48>>
\* 'Content-Type: multipart/mixed; boundary="'
STR_ContentTypeMultipart == <<67, 111, 110, 116, 101, 110, 116, 45, 84, 121, 112, 101, 58, 32, 109, 117, 108, 116, 105, 112, 97, 114, 116, 47, 109, 105, 120, 101, 100, 59, 32, 98, 111, 117, 110, 100, 97, 114, 121, 61, 34>>
\* '"'
STR_Quote == <<34>>
\* '--'
STR_DashDash == <<45, 45>>
\* 'Content-Type: '
STR_ContentType == <<67, 111, 110, 116, 101, 110, 116, 45, 84, 121, 112, 101, 58, 32>>
\* '; name="'
STR_Name == <<59, 32, 110, 97, 109, 101, 61, 34>>
\* 'Content-Transfer-Encoding: base64'
STR_ContentTransferEncoding == <<67, 111, 110, 116, 101, 110, 116, 45, 84, 114, 97, 110, 115, 102, 101, 114, 45, 69, 110, 99, 111, 100, 105, 110, 103, 58, 32, 98, 97, 115, 101, 54, 52>>
\* 'Content-Disposition: attachment; filename="'
STR_ContentDisposition == <<67, 111, 110, 116, 101, 110, 116, 45, 68, 105, 115, 112, 111, 115, 105, 116, 105, 111, 110, 58, 32, 97, 116, 116, 97, 99, 104, 109, 101, 110, 116, 59, 32, 102, 105, 108, 101, 110, 97, 109, 101, 61, 34>>
\* '\r\n'
STR_CRLF == <<13, 10>>
\* 'boundary_'
STR_boundary == <<98, 111, 117, 110, 100, 97, 114, 121, 95>>
\* '_'
STR_Underscore == <<95>>

\* the table "types" of guessMimeType: <<extension, MIME type>>
MimeTypes == <<
  \* .pdf -> application/pdf
  <<<<46, 112, 100, 102>>,
    <<97, 112, 112, 108, 105, 99, 97, 116, 105, 111, 110, 47, 112, 100, 102>>>>,
  \* .zip -> application/zip
  <<<<46, 122, 105, 112>>,
    <<97, 112, 112, 108, 105, 99, 97, 116, 105, 111, 110, 47, 122, 105, 112>>>>,
  \* .gz -> application/gzip
  <<<<46, 103, 122>>,
    <<97, 112, 112, 108, 105, 99, 97, 116, 105, 111, 110, 47, 103, 122, 105, 112>>>>,
  \* .tar -> application/x-tar
  <<<<46, 116, 97, 114>>,
    <<97, 112, 112, 108, 105, 99, 97, 116, 105, 111, 110, 47, 120, 45, 116, 97, 114>>>>,
  \* .doc -> application/msword
  <<<<46, 100, 111, 99>>,
    <<97, 112, 112, 108, 105, 99, 97, 116, 105, 111, 110, 47, 109, 115, 119, 111, 114, 100>>>>,
  \* .docx -> application/vnd.openxmlformats-officedocument.wordprocessingml.document
  <<<<46, 100, 111, 99, 120>>,
    <<97, 112, 112, 108, 105, 99, 97, 116, 105, 111, 110, 47, 118, 110, 100, 46, 111, 112, 101, 110, 120, 109, 108, 102, 111, 114, 109, 97, 116, 115, 45, 111, 102, 102, 105, 99, 101, 100, 111, 99, 117, 109, 101, 110, 116, 46, 119, 111, 114, 100, 112, 114, 111, 99, 101, 115, 115, 105, 110, 103, 109, 108, 46, 100, 111, 99, 117, 109, 101, 110, 116>>>>,
  \* .xls -> application/vnd.ms-excel
  <<<<46, 120, 108, 115>>,
    <<97, 112, 112, 108, 105, 99, 97, 116, 105, 111, 110, 47, 118, 110, 100, 46, 109, 115, 45, 101, 120, 99, 101, 108>>>>,
  \* .xlsx -> application/vnd.openxmlformats-officedocument.spreadsheetml.sheet
  <<<<46, 120, 108, 115, 120>>,
    <<97, 112, 112, 108, 105, 99, 97, 116, 105, 111, 110, 47, 118, 110, 100, 46, 111, 112, 101, 110, 120, 109, 108, 102, 111, 114, 109, 97, 116, 115, 45, 111, 102, 102, 105, 99, 101, 100, 111, 99, 117, 109, 101, 110, 116, 46, 115, 112, 114, 101, 97, 100, 115, 104, 101, 101, 116, 109, 108, 46, 115, 104, 101, 101, 116>>>>,
  \* .ppt -> application/vnd.ms-powerpoint
  <<<<46, 112, 112, 116>>,
    <<97, 112, 112, 108, 105, 99, 97, 116, 105, 111, 110, 47, 118, 110, 100, 46, 109, 115, 45, 112, 111, 119, 101, 114, 112, 111, 105, 110, 116>>>>,
  \* .pptx -> application/vnd.openxmlformats-officedocument.presentationml.presentation
  <<<<46, 112, 112, 116, 120>>,
    <<97, 112, 112, 108, 105, 99, 97, 116, 105, 111, 110, 47, 118, 110, 100, 46, 111, 112, 101, 110, 120, 109, 108, 102, 111, 114, 109, 97, 116, 115, 45, 111, 102, 102, 105, 99, 101, 100, 111, 99, 117, 109, 101, 110, 116, 46, 112, 114, 101, 115, 101, 110, 116, 97, 116, 105, 111, 110, 109, 108, 46, 112, 114, 101, 115, 101, 110, 116, 97, 116, 105, 111, 110>>>>,
  \* .png -> image/png
  <<<<46, 112, 110, 103>>,
    <<105, 109, 97, 103, 101, 47, 112, 110, 103>>>>,
  \* .jpg -> image/jpeg
  <<<<46, 106, 112, 103>>,
    <<105, 109, 97, 103, 101, 47, 106, 112, 101, 103>>>>,
  \* .jpeg -> image/jpeg
  <<<<46, 106, 112, 101, 103>>,
    <<105, 109, 97, 103, 101, 47, 106, 112, 101, 103>>>>,
  \* .gif -> image/gif
  <<<<46, 103, 105, 102>>,
    <<105, 109, 97, 103, 101, 47, 103, 105, 102>>>>,
  \* .svg -> image/svg+xml
  <<<<46, 115, 118, 103>>,
    <<105, 109, 97, 103, 101, 47, 115, 118, 103, 43, 120, 109, 108>>>>,
  \* .webp -> image/webp
  <<<<46, 119, 101, 98, 112>>,
    <<105, 109, 97, 103, 101, 47, 119, 101, 98, 112>>>>,
  \* .txt -> text/plain
  <<<<46, 116, 120, 116>>,
    <<116, 101, 120, 116, 47, 112, 108, 97, 105, 110>>>>,
  \* .csv -> text/csv
  <<<<46, 99, 115, 118>>,
    <<116, 101, 120, 116, 47, 99, 115, 118>>>>,
  \* .html -> text/html
  <<<<46, 104, 116, 109, 108>>,
    <<116, 101, 120, 116, 47, 104, 116, 109, 108>>>>,
  \* .json -> application/json
  <<<<46, 106, 115, 111, 110>>,
    <<97, 112, 112, 108, 105, 99, 97, 116, 105, 111, 110, 47, 106, 115, 111, 110>>>>,
  \* .xml -> application/xml
  <<<<46, 120, 109, 108>>,
    <<97, 112, 112, 108, 105, 99, 97, 116, 105, 111, 110, 47, 120, 109, 108>>>>,
  \* .mp3 -> audio/mpeg
  <<<<46, 109, 112, 51>>,
    <<97, 117, 100, 105, 111, 47, 109, 112, 101, 103>>>>,
  \* .mp4 -> video/mp4
  <<<<46, 109, 112, 52>>,
    <<118, 105, 100, 101, 111, 47, 109, 112, 52>>>>,
  \* .wav -> audio/wav
  <<<<46, 119, 97, 118>>,
    <<97, 117, 100, 105, 111, 47, 119, 97, 118>>>>
>>

\* index of the last code unit c in s at or before position i, 0 when there is none
RECURSIVE LastIndexOf(_, _, _)
LastIndexOf(s, c, i) ==
  IF i < 1 THEN 0 ELSE IF s[i] = c THEN i ELSE LastIndexOf(s, c, i - 1)

\* length of s without its trailing "/" (47) code units, keeping at least one code unit
RECURSIVE StripSlashesLen(_, _)
StripSlashesLen(s, n) == IF n > 1 /\ s[n] = 47 THEN StripSlashesLen(s, n - 1) ELSE n

\* path.basename(filePath) (POSIX)
basename(filePath) ==
  LET n == StripSlashesLen(filePath, Len(filePath))
      p == SubSeq(filePath, 1, n)
      k == LastIndexOf(p, 47, n)
  IN IF p = <<47>> THEN <<>> ELSE SubSeq(p, k + 1, n)

\* path.extname(filename) of a name without directories: from its last "." (46)
\* on, empty when there is none or the name only starts with one
extname(filename) ==
  LET k == LastIndexOf(filename, 46, Len(filename)) IN
  IF k <= 1 \/ filename = <<46, 46>> THEN <<>> ELSE SubSeq(filename, k, Len(filename))

\* types[ext] ?? "application/octet-stream", looked up from row i on
RECURSIVE LookupType(_, _)
LookupType(ext, i) ==
  IF i > Len(MimeTypes) THEN STR_octetstream
  ELSE IF MimeTypes[i][1] = ext THEN MimeTypes[i][2]
  ELSE LookupType(ext, i + 1)

guessMimeType(filename) == LookupType(toLowerCase(extname(filename)), 1)

\* the loop of buildRawMessage that cuts the base64 text into lines: slice(i, i + 76)
\* for i = 0, 76, ... (from: 1-based start of the next line)
\* a variant of WrapLines that pushes the text from position from on as one line
WrapLinesAsOneLine(encoded, from) ==
  IF from > Len(encoded) THEN <<>> ELSE <<SubSeq(encoded, from, Len(encoded))>>

RECURSIVE WrapLines(_, _)
WrapLines(encoded, from) ==
  IF from > Len(encoded) THEN <<>>
  ELSE <<SubSeq(encoded, from, IF from + 75 <= Len(encoded) THEN from + 75 ELSE Len(encoded))>>
       \o WrapLines(encoded, from + 76)

\* options.f is truthy (a present, non-empty string or array)
Truthy(o, f) == Has(o, f) /\ o[f] # <<>>

\* the lines To / Cc / Bcc / Subject that open both kinds of message
AddressLines(o) ==
  <<STR_To \o o.to>>
  \o (IF Truthy(o, "cc") THEN <<STR_Cc \o o.cc>> ELSE <<>>)
  \o (IF Truthy(o, "bcc") THEN <<STR_Bcc \o o.bcc>> ELSE <<>>)
  \o <<STR_Subject \o (IF Has(o, "threadSubject") THEN o.threadSubject ELSE o.subject)>>

\* a variant of ThreadingLines that pushes the lines whenever inReplyTo is given,
\* the empty string included
ThreadingLinesWhenGiven(o) ==
  IF Has(o, "inReplyTo")
    THEN <<STR_InReplyTo \o o.inReplyTo,
           STR_References \o (IF Has(o, "references") THEN o.references ELSE o.inReplyTo)>>
    ELSE <<>>

\* the lines In-Reply-To / References, pushed when options.inReplyTo is truthy
ThreadingLines(o) ==
  IF Truthy(o, "inReplyTo")
    THEN <<STR_InReplyTo \o o.inReplyTo,
           STR_References \o (IF Has(o, "references") THEN o.references ELSE o.inReplyTo)>>
    ELSE <<>>

\* a variant of FlatLines that does not push the empty line before the body
FlatLinesWithoutBlankLine(o) ==
  AddressLines(o) \o <<STR_ContentTypeTextPlain>> \o ThreadingLines(o) \o <<o.body>>

\* the lines of a message without attachments
FlatLines(o) ==
  AddressLines(o) \o <<STR_ContentTypeTextPlain>> \o ThreadingLines(o) \o <<<<>>, o.body>>

\* the lines pushed for one attachment whose bytes are content
AttachmentLines(boundary, filePath, content) ==
  LET filename == basename(filePath) IN
  <<STR_DashDash \o boundary,
    STR_ContentType \o guessMimeType(filename) \o STR_Name \o filename \o STR_Quote,
    STR_ContentTransferEncoding,
    STR_ContentDisposition \o filename \o STR_Quote,
    <<>>>>
  \o WrapLines(Base64Encode(content), 1)
  \o <<<<>>>>

----------------------------------------------------------------------------
(* The local file system read by buildRawMessage                           *)

\* "/d/a.pdf": a file of three bytes ("%PD")
PathPdf == <<47, 100, 47, 97, 46, 112, 100, 102>>
\* "b.TXT": an empty file
PathTxt == <<98, 46, 84, 88, 84>>
\* "/nofile": no such file
PathMissing == <<47, 110, 111, 102, 105, 108, 101>>

\* the readable files and their bytes
Files == (PathPdf :> <<37, 80, 68>>) @@ (PathTxt :> <<>>)

\* fs.readFileSync(filePath): the bytes, or the error it throws
readFileSync(filePath) ==
  IF filePath \in DOMAIN Files
    THEN [ok |-> TRUE, content |-> Files[filePath]]
    ELSE [ok |-> FALSE, error |-> [code |-> "ENOENT", path |-> filePath]]

\* index of the first path from i on whose read throws, 0 when every read succeeds
RECURSIVE FirstUnreadable(_, _)
FirstUnreadable(attachments, i) ==
  IF i > Len(attachments) THEN 0
  ELSE IF ~readFileSync(attachments[i]).ok THEN i
  ELSE FirstUnreadable(attachments, i + 1)

\* the lines pushed by the loop "for (const filePath of options.attachments)" from i on
RECURSIVE AttachmentParts(_, _, _)
AttachmentParts(boundary, attachments, i) ==
  IF i > Len(attachments) THEN <<>>
  ELSE AttachmentLines(boundary, attachments[i], readFileSync(attachments[i]).content)
       \o AttachmentParts(boundary, attachments, i + 1)

\* a variant of MultipartLines that pushes the attachment parts before the body part
MultipartLinesBodyLast(o, boundary) ==
  AddressLines(o)
  \o <<STR_MimeVersion>>
  \o ThreadingLines(o)
  \o <<STR_ContentTypeMultipart \o boundary \o STR_Quote, <<>>>>
  \o AttachmentParts(boundary, o.attachments, 1)
  \o <<STR_DashDash \o boundary, STR_ContentTypeTextPlain, <<>>, o.body, <<>>>>
  \o <<STR_DashDash \o boundary \o STR_DashDash>>

\* the lines of a message with attachments
MultipartLines(o, boundary) ==
  AddressLines(o)
  \o <<STR_MimeVersion>>
  \o ThreadingLines(o)
  \o <<STR_ContentTypeMultipart \o boundary \o STR_Quote, <<>>>>
  \o <<STR_DashDash \o boundary, STR_ContentTypeTextPlain, <<>>, o.body, <<>>>>
  \o AttachmentParts(boundary, o.attachments, 1)
  \o <<STR_DashDash \o boundary \o STR_DashDash>>

\* `boundary_${Date.now()}_${Math.random().toString(36).slice(2)}`: now is the
\* decimal text of the clock, rnd the base-36 digits of the random fraction
Boundary(now, rnd) == STR_boundary \o now \o STR_Underscore \o rnd

\* a variant of buildRawMessage that leaves out the files it cannot read
buildRawMessageSkippingUnreadable(module, o, boundary) ==
  IF ~(module = "write" /\ Truthy(o, "attachments"))
    THEN [ok |-> TRUE, raw |-> encodeBase64Url(Join(FlatLines(o), STR_CRLF))]
  ELSE LET readable == SelectSeq(o.attachments, LAMBDA f : readFileSync(f).ok)
           kept == [o EXCEPT !.attachments = readable]
       IN [ok |-> TRUE,
           raw |-> encodeBase64Url(Join(MultipartLines(kept, boundary), STR_CRLF))]

\* buildRawMessage: [ok |-> TRUE, raw |-> the base64url text] when it returns,
\* [ok |-> FALSE, error |-> e] when a file read throws.  The copy in
\* services/gmail.ts has no attachments option and always builds the flat message.
buildRawMessage(module, o, boundary) ==
  IF ~(module = "write" /\ Truthy(o, "attachments"))
    THEN [ok |-> TRUE, raw |-> encodeBase64Url(Join(FlatLines(o), STR_CRLF))]
  ELSE LET bad == FirstUnreadable(o.attachments, 1) IN
    IF bad > 0
      THEN [ok |-> FALSE, error |-> readFileSync(o.attachments[bad]).error]
      ELSE [ok |-> TRUE,
            raw |-> encodeBase64Url(Join(MultipartLines(o, boundary), STR_CRLF))]

----------------------------------------------------------------------------
(* replyToMessage: the options derived from the original message           *)

\* "Message-ID"
STR_MessageID == <<77, 101, 115, 115, 97, 103, 101, 45, 73, 68>>
\* "References"
STR_ReferencesName == <<82, 101, 102, 101, 114, 101, 110, 99, 101, 115>>
\* "Subject"
STR_SubjectName == <<83, 117, 98, 106, 101, 99, 116>>
\* "From"
STR_From == <<70, 114, 111, 109>>
\* "To"
STR_ToName == <<84, 111>>
\* "Cc"
STR_CcName == <<67, 99>>
\* "Date"
STR_Date == <<68, 97, 116, 101>>
\* "Re:"
STR_Re == <<82, 101, 58>>
\* "Re: "
STR_ReSp == <<82, 101, 58, 32>>

\* a variant of threadSubject that prefixes every subject
threadSubjectAlwaysPrefixed(subject) == STR_ReSp \o subject

\* subject.startsWith("Re:") ? subject : `Re: ${subject}`
threadSubject(subject) ==
  IF StartsWith(subject, STR_Re) THEN subject ELSE STR_ReSp \o subject

\* a variant of replyReferences that puts the original's id first
replyReferencesIdFirst(references, originalMessageId) ==
  IF references # <<>> THEN originalMessageId \o STR_Sp \o references
  ELSE originalMessageId

\* references ? `${references} ${originalMessageId}` : originalMessageId
replyReferences(references, originalMessageId) ==
  IF references # <<>> THEN references \o STR_Sp \o originalMessageId
  ELSE originalMessageId

\* original.data.payload?.headers
ResponseHeaders(original) ==
  IF Has(original, "payload") /\ Has(original.payload, "headers")
    THEN Defined(original.payload.headers) ELSE Undefined

\* the object replyToMessage passes to buildRawMessage; attachments is Undefined
\* when the caller gave none (only tools/write.ts takes the argument)
replyOptions(original, body, attachments) ==
  LET headers == ResponseHeaders(original)
      originalMessageId == getHeader(headers, STR_MessageID)
      references == getHeader(headers, STR_ReferencesName)
      subject == getHeader(headers, STR_SubjectName)
      from == getHeader(headers, STR_From)
      o == [to |-> from,
            subject |-> subject,
            body |-> body,
            inReplyTo |-> originalMessageId,
            references |-> replyReferences(references, originalMessageId),
            threadSubject |-> threadSubject(subject)]
  IN IF attachments.defined THEN o @@ [attachments |-> attachments.value] ELSE o

----------------------------------------------------------------------------
(* Bounds and the inputs the environment can supply                        *)

\* most Parts in a message's Part tree
MaxNodes == 4
\* most headers in a metadata response
MaxHeaders == 3
\* most attachment paths in a compose call
MaxAttachments == 2

\* Parts without children.  body.data is base64url text as the provider sends it.
\* text/plain without payload
PartPlainEmpty == [mimeType |-> STR_textplain]
\* text/plain, payload "SGk" ("Hi")
PartPlainHi == [mimeType |-> STR_textplain, body |-> [data |-> <<83, 71, 107>>, size |-> 2]]
\* text/plain named "n.txt", payload "WW8" ("Yo") inline, no attachmentId
PartPlainYoFile ==
  [mimeType |-> STR_textplain, filename |-> <<110, 46, 116, 120, 116>>,
   body |-> [data |-> <<87, 87, 56>>, size |-> 2]]
\* text/html, payload "PGI-QTwvYj48YnI-Qg" ("<b>A</b><br>B")
PartHtml ==
  [mimeType |-> STR_texthtml,
   body |-> [data |-> <<80, 71, 73, 45, 81, 84, 119, 118, 89, 106, 52, 56, 89, 110, 73, 45, 81, 103>>,
             size |-> 13]]
\* application/pdf named "a.pdf", stored by the provider under attachmentId "att1"
PartPdfRef ==
  [mimeType |-> <<97, 112, 112, 108, 105, 99, 97, 116, 105, 111, 110, 47, 112, 100, 102>>,
   filename |-> <<97, 46, 112, 100, 102>>,
   body |-> [attachmentId |-> <<97, 116, 116, 49>>, size |-> 3]]
\* text/plain whose payload "SGk=WW8" is not base64url: padding in the middle
PartCorrupt ==
  [mimeType |-> STR_textplain, body |-> [data |-> <<83, 71, 107, 61, 87, 87, 56>>, size |-> 4]]

LeafParts == {PartPlainEmpty, PartPlainHi, PartPlainYoFile, PartHtml, PartPdfRef, PartCorrupt}

\* Parts with children, before their children are attached
\* multipart/mixed
PartMixed == [mimeType |-> <<109, 117, 108, 116, 105, 112, 97, 114, 116, 47, 109, 105, 120, 101, 100>>]
\* message/rfc822 named "fwd.eml" with attachmentId "att2"
PartForwarded ==
  [mimeType |-> <<109, 101, 115, 115, 97, 103, 101, 47, 114, 102, 99, 56, 50, 50>>,
   filename |-> <<102, 119, 100, 46, 101, 109, 108>>,
   body |-> [attachmentId |-> <<97, 116, 116, 50>>, size |-> 9]]

\* multipart/related that carries a payload of its own, "T2s" ("Ok")
PartRelated ==
  [mimeType |-> <<109, 117, 108, 116, 105, 112, 97, 114, 116, 47, 114, 101, 108, 97, 116, 101, 100>>,
   body |-> [data |-> <<84, 50, 115>>, size |-> 2]]

InnerParts == {PartMixed, PartForwarded, PartRelated}

RECURSIVE TreesOfSize(_)
RECURSIVE ForestsOfSize(_)

\* the Part trees of exactly n Parts
TreesOfSize(n) ==
  IF n = 1 THEN LeafParts
  ELSE {p @@ [parts |-> f] : p \in InnerParts, f \in ForestsOfSize(n - 1)}

\* the child lists of m Parts in all
ForestsOfSize(m) ==
  IF m = 0 THEN {<<>>}
  ELSE UNION {{<<t>> \o f : t \in TreesOfSize(k), f \in ForestsOfSize(m - k)} : k \in 1..m}

PartTrees == UNION {TreesOfSize(n) : n \in 1..MaxNodes}

\* the header list of a full message: Subject "Hi", From "a@x"
FullHeaders ==
  <<[name |-> STR_SubjectName, value |-> <<72, 105>>],
    [name |-> STR_From, value |-> <<97, 64, 120>>]>>

\* responses of users.messages.get with format "full"
FullResponses ==
  {[id |-> "m1", threadId |-> "t1"]}
  \cup {[id |-> "m1", threadId |-> "t1", payload |-> t @@ [headers |-> FullHeaders]] :
          t \in PartTrees}

\* headers a metadata response can carry
HeaderPool ==
  {[name |-> <<77, 101, 115, 115, 97, 103, 101, 45, 73, 100>>,       \* Message-Id: <m@x>
    value |-> <<60, 109, 64, 120, 62>>],
   [name |-> STR_ReferencesName, value |-> <<60, 114, 64, 120, 62>>], \* References: <r@x>
   [name |-> STR_ReferencesName, value |-> <<>>],                     \* References: (empty)
   [name |-> STR_SubjectName, value |-> <<72, 105>>],                 \* Subject: Hi
   [name |-> STR_SubjectName, value |-> <<82, 101, 58, 32, 72, 105>>],\* Subject: Re: Hi
   [name |-> STR_From, value |-> <<97, 64, 120>>]}                    \* From: a@x

\* the sequences over S of length at most n
SeqsUpTo(S, n) == UNION {[1..k -> S] : k \in 0..n}

\* the header lists of at most n headers of S, no header occurring twice
HeaderLists(S, n) ==
  {hs \in SeqsUpTo(S, n) : \A i, j \in 1..Len(hs) : i # j => hs[i] # hs[j]}

\* responses of users.messages.get with format "metadata"
MetadataResponses ==
  {[id |-> "m1", threadId |-> "t1"]}
  \cup {[id |-> "m1", threadId |-> "t1", payload |-> [headers |-> hs]] :
          hs \in HeaderLists(HeaderPool, MaxHeaders)}

\* a record with the field f set to one of S, or without it
Optional(f, S) == {<<>>} \cup {[x \in {f} |-> v] : v \in S}

\* body texts: "", "a\r\n\r\nb", "é"
Bodies == {<<>>, <<97, 13, 10, 13, 10, 98>>, <<233>>}

\* the attachment lists a caller can pass
AttachmentLists == SeqsUpTo({PathPdf, PathTxt, PathMissing}, MaxAttachments)

\* arguments of sendMessage and createDraft: to "a@x"; subject "Hi";
\* cc absent, "" or "c@x"; bcc absent or "b@x"; attachments only in tools/write.ts
ComposeArgs(module) ==
  {[to |-> <<97, 64, 120>>, subject |-> s, body |-> b] @@ cc @@ bcc @@ att :
     s \in {<<72, 105>>},
     b \in Bodies,
     cc \in Optional("cc", {<<>>, <<99, 64, 120>>}),
     bcc \in Optional("bcc", {<<98, 64, 120>>}),
     att \in IF module = "write" THEN Optional("attachments", AttachmentLists) ELSE {<<>>}}

\* arguments of replyToMessage: body "yo"; attachments only in tools/write.ts
ReplyArgs(module) ==
  {[messageId |-> "m1", body |-> <<121, 111>>] @@ att :
     att \in IF module = "write"
              THEN Optional("attachments", {<<PathPdf>>, <<PathMissing>>})
              ELSE {<<>>}}

\* values of Date.now() as decimal text ("1721") and of
\* Math.random().toString(36).slice(2) ("k3", and "" for a fraction of 0)
Boundaries == {Boundary(<<49, 55, 50, 49>>, r) : r \in {<<107, 51>>, <<>>}}

\* the boundaries buildRawMessage can draw for the options o: the clock and the
\* random number are read only on the way to a multipart message
BoundaryChoices(module, o) ==
  IF module = "write" /\ Truthy(o, "attachments") THEN Boundaries ELSE {<<>>}

----------------------------------------------------------------------------
(* The client and the API functions                                        *)

\* how many getGmailClient() calls a behaviour is followed for
MaxConstructions == 3

\* getGmailClient(): getOAuth2Client throws when an environment variable is missing
getGmailClient(e) ==
  IF e THEN [ok |-> TRUE, gmail |-> "client"]
  ELSE [ok |-> FALSE, gmail |-> "unset",
        error |-> [code |-> "MissingEnvironment"]]

\* client() without its test of the cache: every call constructs
clientWithoutCache(g, e) ==
  LET made == getGmailClient(e) IN
    IF made.ok
      THEN [ok |-> TRUE, gmail |-> made.gmail, constructed |-> <<TRUE>>]
      ELSE [ok |-> FALSE, gmail |-> g, error |-> made.error, constructed |-> <<FALSE>>]

\* client(): the cached client g, constructed on first use.  A throw of
\* getGmailClient() leaves the cache as it was; constructed lists the outcome
\* of the getGmailClient() call made, if one was made.
client(g, e) ==
  IF g = "unset"
    THEN LET made == getGmailClient(e) IN
           IF made.ok
             THEN [ok |-> TRUE, gmail |-> made.gmail, constructed |-> <<TRUE>>]
             ELSE [ok |-> FALSE, gmail |-> g, error |-> made.error,
                   constructed |-> <<FALSE>>]
    ELSE [ok |-> TRUE, gmail |-> g, constructed |-> <<>>]

\* client() called n times in a row, as by the callbacks of messages.map: the
\* outcome of the last call, with every construction along the way
RECURSIVE clientEach(_, _, _)
clientEach(g, e, n) ==
  IF n = 0 THEN [ok |-> TRUE, gmail |-> g, constructed |-> <<>>]
  ELSE LET c == client(g, e)
           rest == clientEach(c.gmail, e, n - 1)
       IN IF ~c.ok THEN c
          ELSE IF ~rest.ok THEN [rest EXCEPT !.constructed = c.constructed \o @]
          ELSE [ok |-> TRUE, gmail |-> rest.gmail,
                constructed |-> c.constructed \o rest.constructed]

\* a rejected call
Fail(e) == [ok |-> FALSE, error |-> e]

\* what getMessage returns for the response res
getMessageResult(module, res) ==
  LET payload == IF Has(res, "payload") THEN res.payload ELSE NoValue
      headers == ResponseHeaders(res)
  IN [id |-> res.id,
      threadId |-> res.threadId,
      subject |-> getHeader(headers, STR_SubjectName),
      from |-> getHeader(headers, STR_From),
      to |-> getHeader(headers, STR_ToName),
      cc |-> getHeader(headers, STR_CcName),
      date |-> getHeader(headers, STR_Date),
      body |-> extractBody(payload),
      attachments |-> extractAttachments(module, payload)]

Init ==
  /\ impl \in {"gmail", "write"}
  /\ env \in BOOLEAN
  /\ gmail = "unset"
  /\ constructions = <<>>
  /\ pc = "idle"
  /\ call = NoValue
  /\ fetched = NoValue
  /\ options = NoValue
  /\ built = NoValue
  /\ requests = <<>>
  /\ result = NoValue

\* getMessage up to its await: client(), then the messages.get request
GetMessage(messageId) ==
  /\ pc = "idle"
  /\ Len(constructions) < MaxConstructions
  /\ call' = [op |-> "getMessage", messageId |-> messageId]
  /\ LET c == client(gmail, env) IN
       /\ gmail' = c.gmail
       /\ constructions' = constructions \o c.constructed
       /\ IF c.ok
            THEN /\ requests' = <<[api |-> "users.messages.get", id |-> messageId,
                                   format |-> "full"]>>
                 /\ pc' = "awaitFull"
                 /\ result' = NoValue
            ELSE /\ requests' = <<>>
                 /\ pc' = "done"
                 /\ result' = Fail(c.error)
  /\ UNCHANGED <<impl, env, fetched, options, built>>

\* getMessage after its await: the provider's response is decoded and returned
GetMessageResponse ==
  /\ pc = "awaitFull"
  /\ \E res \in FullResponses :
       /\ fetched' = res
       /\ result' = [ok |-> TRUE, value |-> getMessageResult(impl, res)]
  /\ pc' = "done"
  /\ UNCHANGED <<impl, env, gmail, constructions, call, options, built, requests>>

\* sendMessage (api "users.messages.send", then awaiting "awaitSend") and
\* createDraft (api "users.drafts.create", "awaitDraft") up to their await:
\* buildRawMessage, client(), then the request
Compose(op, api, await, args, boundary) ==
  /\ pc = "idle"
  /\ Len(constructions) < MaxConstructions
  /\ call' = [op |-> op, args |-> args]
  /\ options' = args
  /\ LET b == buildRawMessage(impl, args, boundary)
         c == client(gmail, env)
     IN
       /\ built' = b
       /\ IF ~b.ok
            THEN /\ requests' = <<>>
                 /\ pc' = "done"
                 /\ result' = Fail(b.error)
                 /\ gmail' = gmail
                 /\ constructions' = constructions
          ELSE IF ~c.ok
            THEN /\ requests' = <<>>
                 /\ pc' = "done"
                 /\ result' = Fail(c.error)
                 /\ gmail' = c.gmail
                 /\ constructions' = constructions \o c.constructed
          ELSE /\ requests' = <<[api |-> api, raw |-> b.raw]>>
               /\ pc' = await
               /\ result' = NoValue
               /\ gmail' = c.gmail
               /\ constructions' = constructions \o c.constructed
  /\ UNCHANGED <<impl, env, fetched>>

\* sendMessage, for the caller's options and the boundary drawn while building
SendMessage ==
  /\ pc = "idle"
  /\ \E args \in ComposeArgs(impl) :
       \E boundary \in BoundaryChoices(impl, args) :
         Compose("sendMessage", "users.messages.send", "awaitSend", args, boundary)

\* createDraft, likewise
CreateDraft ==
  /\ pc = "idle"
  /\ \E args \in ComposeArgs(impl) :
       \E boundary \in BoundaryChoices(impl, args) :
         Compose("createDraft", "users.drafts.create", "awaitDraft", args, boundary)

\* replyToMessage up to its first await: client(), then the metadata request
ReplyToMessage(args) ==
  /\ pc = "idle"
  /\ Len(constructions) < MaxConstructions
  /\ call' = [op |-> "replyToMessage"] @@ args
  /\ LET c == client(gmail, env) IN
       /\ gmail' = c.gmail
       /\ constructions' = constructions \o c.constructed
       /\ IF c.ok
            THEN /\ requests' = <<[api |-> "users.messages.get", id |-> args.messageId,
                                   format |-> "metadata"]>>
                 /\ pc' = "awaitMeta"
                 /\ result' = NoValue
            ELSE /\ requests' = <<>>
                 /\ pc' = "done"
                 /\ result' = Fail(c.error)
  /\ UNCHANGED <<impl, env, fetched, options, built>>

\* replyToMessage between its awaits: the original's headers arrive, the reply
\* is built, client() is called again and the send request issued in the
\* original's thread
ReplyFetched(boundary) ==
  /\ pc = "awaitMeta"
  /\ \E original \in MetadataResponses :
       LET o == replyOptions(original, call.body,
                             IF Has(call, "attachments") THEN Defined(call.attachments)
                             ELSE Undefined)
           b == buildRawMessage(impl, o, boundary)
           c == client(gmail, env)
       IN
         /\ fetched' = original
         /\ options' = o
         /\ built' = b
         /\ IF ~b.ok
              THEN /\ requests' = requests
                   /\ pc' = "done"
                   /\ result' = Fail(b.error)
                   /\ gmail' = gmail
                   /\ constructions' = constructions
            ELSE IF ~c.ok
              THEN /\ requests' = requests
                   /\ pc' = "done"
                   /\ result' = Fail(c.error)
                   /\ gmail' = c.gmail
                   /\ constructions' = constructions \o c.constructed
            ELSE /\ requests' = Append(requests,
                                       [api |-> "users.messages.send", raw |-> b.raw,
                                        threadId |-> original.threadId])
                 /\ pc' = "awaitSend"
                 /\ result' = NoValue
                 /\ gmail' = c.gmail
                 /\ constructions' = constructions \o c.constructed
  /\ UNCHANGED <<impl, env, call>>

\* the provider answers messages.send
SendResponse ==
  /\ pc = "awaitSend"
  /\ result' = [ok |-> TRUE, value |-> [id |-> "s1", threadId |-> "t1"]]
  /\ pc' = "done"
  /\ UNCHANGED <<impl, env, gmail, constructions, call, fetched, options, built, requests>>

\* the provider answers drafts.create
DraftResponse ==
  /\ pc = "awaitDraft"
  /\ result' = [ok |-> TRUE, value |-> [id |-> "d1", messageId |-> "s1"]]
  /\ pc' = "done"
  /\ UNCHANGED <<impl, env, gmail, constructions, call, fetched, options, built, requests>>

\* the provider rejects the awaited request: the call rejects with that error
ProviderError ==
  /\ pc \in {"awaitFull", "awaitMeta", "awaitSend", "awaitDraft", "awaitLabels"}
  /\ result' = Fail([code |-> "ProviderError"])
  /\ pc' = "done"
  /\ UNCHANGED <<impl, env, gmail, constructions, call, fetched, options, built, requests>>

\* the call's outcome is handed to the caller; the next call starts afresh
Return ==
  /\ pc = "done"
  /\ pc' = "idle"
  /\ call' = NoValue
  /\ fetched' = NoValue
  /\ options' = NoValue
  /\ built' = NoValue
  /\ requests' = <<>>
  /\ result' = NoValue
  /\ UNCHANGED <<impl, env, gmail, constructions>>

NextRead ==
  \/ \E m \in {"m1"} : GetMessage(m)
  \/ GetMessageResponse
  \/ ProviderError
  \/ Return

NextWrite ==
  \/ SendMessage
  \/ CreateDraft
  \/ \E args \in ReplyArgs(impl) : ReplyToMessage(args)
  \/ \E b \in BoundaryChoices(impl, call) : ReplyFetched(b)
  \/ SendResponse
  \/ DraftResponse
  \/ ProviderError
  \/ Return

Next == NextRead \/ NextWrite

\* the read side alone: getMessage
SpecRead == Init /\ [][NextRead]_vars

\* the write side alone: sendMessage, createDraft, replyToMessage
SpecWrite == Init /\ [][NextWrite]_vars

Spec == Init /\ [][Next]_vars

----------------------------------------------------------------------------
(* Reading a built message back, for the properties below                  *)

\* least element of a non-empty set of numbers
MinOf(S) == CHOOSE i \in S : \A j \in S : i <= j

\* the elements of a set of numbers in increasing order
RECURSIVE SortedSeq(_)
SortedSeq(S) == IF S = {} THEN <<>> ELSE LET m == MinOf(S) IN <<m>> \o SortedSeq(S \ {m})

\* the positions at which a CRLF starts
CrlfPositions(text) == {i \in 1..(Len(text) - 1) : text[i] = 13 /\ text[i + 1] = 10}

\* the lines of a text: what lies between consecutive CRLFs
LinesOf(text) ==
  LET seps == SortedSeq(CrlfPositions(text))
      n == Len(seps)
  IN AsSeq([k \in 1..(n + 1) |->
       SubSeq(text, IF k = 1 THEN 1 ELSE seps[k - 1] + 2,
                    IF k = n + 1 THEN Len(text) ELSE seps[k] - 1)])

\* the header block of a message: its lines before the first empty line
HeaderBlock(lines) ==
  LET blank == {k \in 1..Len(lines) : lines[k] = <<>>} IN
  IF blank = {} THEN lines ELSE SubSeq(lines, 1, MinOf(blank) - 1)

\* what follows the first blank line (the first CRLF CRLF) of a message
AfterHeaders(text) ==
  LET ends == {i \in CrlfPositions(text) : i + 2 \in CrlfPositions(text)} IN
  IF ends = {} THEN <<>> ELSE SubSeq(text, MinOf(ends) + 4, Len(text))

\* the lines of a header block that open with the given field name and ": "
FieldLines(block, prefix) == SelectSeq(block, LAMBDA l : StartsWith(l, prefix))

\* the request the call in flight has just issued with a raw message
IssuedRaw == pc \in {"awaitSend", "awaitDraft"}
LastRequest == requests[Len(requests)]

\* the message carried by the last request, as text
SentText == decodeBase64Url(LastRequest.raw)

\* the value of the first header named name (ignoring case), "" when there is none
FirstHeaderValue(res, name) ==
  IF ~(Has(res, "payload") /\ Has(res.payload, "headers")) THEN <<>>
  ELSE LET hs == res.payload.headers
           hit == {i \in 1..Len(hs) : toLowerCase(hs[i].name) = toLowerCase(name)}
       IN IF hit = {} THEN <<>> ELSE hs[MinOf(hit)].value

----------------------------------------------------------------------------
(* Properties of getMessage (specification SpecRead)                       *)

\* getMessage has returned a decoded message for the response in fetched
Decoded ==
  /\ pc = "done"
  /\ call.op = "getMessage"
  /\ result.ok
  /\ Has(fetched, "payload")

\* a Part that carries a non-empty payload of its own
HasPayload(part) ==
  Has(part, "body") /\ Has(part.body, "data") /\ part.body.data # <<>>

\* a Part that is text/plain and carries a non-empty payload
IsPlainWithPayload(part) ==
  /\ Has(part, "mimeType") /\ part.mimeType = STR_textplain
  /\ Has(part, "body") /\ Has(part.body, "data") /\ part.body.data # <<>>

\* C1: for a Part with children, extractBody returns the decoded payload of the
\* first text/plain child that has a payload, whatever children precede it
\* (a text/html child with a payload, a text/plain child without one).
C1_FirstPlainTextWithPayload ==
  (Decoded /\ Has(fetched.payload, "parts") /\ ~HasPayload(fetched.payload)) =>
    LET parts == fetched.payload.parts
        plain == {i \in 1..Len(parts) : IsPlainWithPayload(parts[i])}
    IN plain # {} =>
         result.value.body = decodeBase64Url(parts[MinOf(plain)].body.data)

RECURSIVE NamedParts(_)
RECURSIVE NamedInForest(_, _)

\* the Parts of a tree that have a non-empty filename, in pre-order
NamedParts(part) ==
  (IF Has(part, "filename") /\ part.filename # <<>> THEN <<part>> ELSE <<>>)
  \o (IF Has(part, "parts") THEN NamedInForest(part.parts, 1) ELSE <<>>)

NamedInForest(parts, i) ==
  IF i > Len(parts) THEN <<>>
  ELSE NamedParts(parts[i]) \o NamedInForest(parts, i + 1)

\* C2: extractAttachments returns exactly one descriptor for each Part of the
\* tree that has a non-empty filename, at any depth, of any MIME type, with or
\* without an attachment reference, in pre-order; so the number of descriptors
\* is the number of such Parts.
C2_OneDescriptorPerNamedPart ==
  Decoded =>
    LET named == NamedParts(fetched.payload)
        found == result.value.attachments
    IN /\ Len(found) = Len(named)
       /\ \A i \in 1..Len(found) :
            /\ found[i].filename = named[i].filename
            /\ found[i].mimeType = named[i].mimeType

\* a code unit of the URL-safe base-64 alphabet
IsUrlSafeUnit(c) ==
  c \in (48..57) \cup (65..90) \cup (97..122) \cup {45, 95}

\* data is base64url text: alphabet characters, then at most two "=", and a
\* number of alphabet characters that some byte sequence encodes to
IsBase64UrlText(data) ==
  \E k \in 0..2 :
    /\ k <= Len(data)
    /\ \A i \in 1..Len(data) :
         IF i <= Len(data) - k THEN IsUrlSafeUnit(data[i]) ELSE data[i] = 61
    /\ (Len(data) - k) % 4 # 1

\* C10: a payload that is not valid base64url makes the decoding fail with an
\* error the caller sees; no text (truncated or garbled) is returned for it.
C10_CorruptPayloadSurfacesError ==
  (/\ pc = "done"
   /\ call.op = "getMessage"
   /\ Has(fetched, "payload")
   /\ Has(fetched.payload, "body") /\ Has(fetched.payload.body, "data")
   /\ ~IsBase64UrlText(fetched.payload.body.data)) => ~result.ok

----------------------------------------------------------------------------
(* Properties of buildRawMessage (specification SpecWrite)                 *)

\* the options give the field f a non-empty value
NonEmptyField(o, f) == Has(o, f) /\ o[f] # <<>>

\* the message in flight was built without attachments
NoAttachments == ~NonEmptyField(options, "attachments")

\* the message in flight was built without threading fields
NoThreading ==
  ~Has(options, "inReplyTo") /\ ~Has(options, "references") /\ ~Has(options, "threadSubject")

\* the decoded message is the three lines To, Subject, Content-Type, one blank
\* line and the body, and no header line holds a stray CR or LF
IsPlainMessage(text) ==
  LET block == HeaderBlock(LinesOf(text)) IN
  /\ block = <<STR_To \o options.to, STR_Subject \o options.subject, STR_ContentTypeTextPlain>>
  /\ AfterHeaders(text) = options.body
  /\ \A k \in 1..Len(block) : \A i \in 1..Len(block[k]) : block[k][i] \notin {10, 13}

\* C3 as stated: without attachments and threading fields the header block is
\* exactly To, Subject, 'Content-Type: text/plain; charset=utf-8', then a single
\* blank line and the body unchanged, all separators CRLF.
C3_PlainMessageAsStated ==
  (IssuedRaw /\ NoAttachments /\ NoThreading) => IsPlainMessage(SentText)

\* C3: as above, for calls that also give no (non-empty) cc and bcc.
C3_PlainMessage ==
  (/\ IssuedRaw /\ NoAttachments /\ NoThreading
   /\ ~NonEmptyField(options, "cc") /\ ~NonEmptyField(options, "bcc"))
    => IsPlainMessage(SentText)

\* a draft without copies whose body holds a blank line of its own is in flight
C3_Witness ==
  /\ pc = "awaitDraft" /\ NoAttachments /\ NoThreading
  /\ Has(options, "cc") /\ options.cc = <<>> /\ ~Has(options, "bcc")
  /\ options.body = <<97, 13, 10, 13, 10, 98>>
  /\ IsPlainMessage(SentText)

\* the In-Reply-To and References lines of the message in flight agree with
\* the options, In-Reply-To being expected exactly when expected holds
ThreadingAgrees(expected) ==
  LET block == HeaderBlock(LinesOf(SentText))
      irt == FieldLines(block, STR_InReplyTo)
      refs == FieldLines(block, STR_References)
  IN /\ (Len(refs) > 0) <=> (Len(irt) > 0)
     /\ (Len(irt) > 0) <=> expected
     /\ Len(irt) <= 1 /\ Len(refs) <= 1
     /\ Len(irt) = 1 => irt[1] = STR_InReplyTo \o options.inReplyTo
     /\ Len(refs) = 1 =>
          refs[1] = STR_References \o (IF Has(options, "references") THEN options.references
                                       ELSE options.inReplyTo)

DeclaredBoundary(block) ==
  LET ct == FieldLines(block, STR_ContentTypeMultipart) IN
  IF Len(ct) # 1 THEN <<>>
  ELSE SubSeq(ct[1], Len(STR_ContentTypeMultipart) + 1, Len(ct[1]) - 1)

\* the lines of a multipart message are N + 1 parts under the declared
\* boundary: the text/plain body, then the files read from paths, in order
IsMultipartOf(ls, body, paths) ==
  LET block == HeaderBlock(ls)
      boundary == DeclaredBoundary(block)
      delimiter == STR_DashDash \o boundary
      opens == SortedSeq({k \in 1..Len(ls) : ls[k] = delimiter})
      \* where each part stops: the next delimiter, or the closing one
      stops == Tail(opens) \o <<Len(ls)>>
  IN /\ Len(FieldLines(block, STR_ContentTypeMultipart)) = 1
     /\ boundary # <<>>
     /\ Len(opens) = Len(paths) + 1
     /\ ls[Len(ls)] = delimiter \o STR_DashDash
     /\ Len(opens) > 0 =>
          /\ opens[1] = Len(block) + 2
          /\ ls[opens[1] + 1] = STR_ContentTypeTextPlain
          /\ ls[opens[1] + 2] = <<>>
          /\ Join(SubSeq(ls, opens[1] + 3, stops[1] - 2), STR_CRLF) = body
          /\ ls[stops[1] - 1] = <<>>
     /\ \A k \in 1..Len(paths) :
          k + 1 <= Len(opens) =>
            LET at == opens[k + 1] IN
            /\ StartsWith(ls[at + 1], STR_ContentType)
            /\ ls[at + 2] = STR_ContentTransferEncoding
            /\ ls[at + 3] = STR_ContentDisposition \o basename(paths[k]) \o STR_Quote
            /\ ls[at + 4] = <<>>
            /\ Base64Decode(Flatten(SubSeq(ls, at + 5, stops[k + 1] - 2))) = Files[paths[k]]
            /\ ls[stops[k + 1] - 1] = <<>>

\* C5: with N >= 1 attachment paths the message is multipart/mixed with exactly
\* N + 1 parts, each opened by '--<boundary>' for the boundary the top-level
\* Content-Type declares; the first is the text/plain body, parts 2..N+1 are the
\* attachments in the order given, each with 'Content-Transfer-Encoding: base64';
\* the last line is '--<boundary>--'.
C5_MultipartLayout ==
  (IssuedRaw /\ impl = "write" /\ NonEmptyField(options, "attachments")) =>
    IsMultipartOf(LinesOf(SentText), options.body, options.attachments)

\* a message with two different attachments and a body of several lines is in flight
C5_Witness ==
  /\ IssuedRaw /\ impl = "write"
  /\ NonEmptyField(options, "attachments")
  /\ options.attachments = <<PathPdf, PathTxt>>
  /\ options.body = <<97, 13, 10, 13, 10, 98>>
  /\ IsMultipartOf(LinesOf(SentText), options.body, options.attachments)

----------------------------------------------------------------------------
(* Properties of the compose calls (specification SpecWrite)               *)

\* the call in flight is a compose call whose message has been built, or has
\* failed to build
ComposeBuilt ==
  /\ pc # "idle"
  /\ call.op \in {"sendMessage", "createDraft", "replyToMessage"}
  /\ built # NoValue

\* the paths of the call in flight that cannot be read, in the order given
UnreadablePaths ==
  IF NonEmptyField(options, "attachments")
    THEN SelectSeq(options.attachments, LAMBDA f : f \notin DOMAIN Files)
    ELSE <<>>

\* the requests of the call in flight that carry a message
MessageRequests ==
  SelectSeq(requests, LAMBDA r : r.api \in {"users.messages.send", "users.drafts.create"})

\* the call has failed with the read error of the first unreadable path, without
\* a message and without a send or draft request
FailedOnRead ==
  /\ pc = "done"
  /\ ~result.ok
  /\ result.error = [code |-> "ENOENT", path |-> UnreadablePaths[1]]
  /\ ~built.ok /\ ~Has(built, "raw")
  /\ MessageRequests = <<>>

\* C6: when reading an attachment file fails, the compose call (sendMessage,
\* createDraft, replyToMessage) fails with that error, no encoded message is
\* produced (in full, in part, or without the attachment), and no send or
\* draft-create request is issued for the call.
C6_ReadFailureIsFatal ==
  (ComposeBuilt /\ impl = "write" /\ UnreadablePaths # <<>>) => FailedOnRead

\* a call whose second file is the unreadable one has failed
C6_Witness ==
  /\ ComposeBuilt /\ impl = "write"
  /\ UnreadablePaths # <<>>
  /\ options.attachments = <<PathPdf, PathMissing>>
  /\ FailedOnRead

\* the reply in flight has derived its options from the fetched original
ReplyDerived ==
  /\ pc \in {"awaitSend", "done"}
  /\ call.op = "replyToMessage"
  /\ fetched # NoValue
  /\ options # NoValue

\* the original has a header named name, ignoring case
HasHeaderNamed(res, name) ==
  /\ Has(res, "payload") /\ Has(res.payload, "headers")
  /\ \E i \in 1..Len(res.payload.headers) :
       toLowerCase(res.payload.headers[i].name) = toLowerCase(name)

\* to, inReplyTo and references of the reply are derived from the original,
\* the References value being carried over when carried holds
ReplyFieldsDerived(carried) ==
  LET from == FirstHeaderValue(fetched, STR_From)
      id == FirstHeaderValue(fetched, STR_MessageID)
      refs == FirstHeaderValue(fetched, STR_ReferencesName)
  IN /\ options.to = from
     /\ options.inReplyTo = id
     /\ options.references = (IF carried THEN refs \o STR_Sp \o id ELSE id)

\* C7 as stated: to = From, inReplyTo = Message-ID, references = References,
\* a space and Message-ID when the original has a References header, else
\* Message-ID alone.
C7_ReplyFieldsAsStated ==
  ReplyDerived => ReplyFieldsDerived(HasHeaderNamed(fetched, STR_ReferencesName))

\* C7: as above, the References value being carried over when the original's
\* first References header has a non-empty value.
C7_ReplyFields ==
  ReplyDerived => ReplyFieldsDerived(FirstHeaderValue(fetched, STR_ReferencesName) # <<>>)

\* a reply to an original with From, Message-Id and a non-empty References
C7_Witness ==
  /\ ReplyDerived
  /\ options.to = <<97, 64, 120>>
  /\ options.inReplyTo = <<60, 109, 64, 120, 62>>
  /\ options.references = <<60, 114, 64, 120, 62, 32, 60, 109, 64, 120, 62>>
  /\ ReplyFieldsDerived(TRUE)

\* C8: the reply subject is the original Subject when that starts with "Re:",
\* else "Re: " and the original Subject; deriving the reply subject of a reply
\* subject returns it unchanged, the empty original included.
C8_ReplySubject ==
  ReplyDerived =>
    LET subject == FirstHeaderValue(fetched, STR_SubjectName) IN
    /\ options.threadSubject =
         (IF StartsWith(subject, STR_Re) THEN subject ELSE STR_ReSp \o subject)
    /\ threadSubject(options.threadSubject) = options.threadSubject

\* a reply to an original without Subject, and so with the subject "Re: "
C8_Witness ==
  /\ ReplyDerived
  /\ ~HasHeaderNamed(fetched, STR_SubjectName)
  /\ options.threadSubject = STR_ReSp
  /\ threadSubject(options.threadSubject) = options.threadSubject

\* a reply has been handed to the provider
ReplySent ==
  /\ call # NoValue /\ call.op = "replyToMessage"
  /\ MessageRequests # <<>>

\* the reply's request follows the fetch of the original's headers and names
\* the original's thread
SentAfterFetchInThread ==
  /\ Len(requests) = 2
  /\ requests[1] = [api |-> "users.messages.get", id |-> call.messageId, format |-> "metadata"]
  /\ requests[2].api = "users.messages.send"
  /\ fetched # NoValue
  /\ requests[2].threadId = fetched.threadId

\* the raw message of the reply has an In-Reply-To line with the original's
\* Message-ID and a References line that ends with it
NamesOriginal ==
  LET id == FirstHeaderValue(fetched, STR_MessageID)
      block == HeaderBlock(LinesOf(decodeBase64Url(requests[2].raw)))
      irt == FieldLines(block, STR_InReplyTo)
      refs == FieldLines(block, STR_References)
  IN /\ id # <<>>
     /\ irt = <<STR_InReplyTo \o id>>
     /\ Len(refs) = 1
     /\ Len(refs[1]) >= Len(STR_References) + Len(id)
     /\ SubSeq(refs[1], Len(refs[1]) - Len(id) + 1, Len(refs[1])) = id

\* the raw message of the reply has neither threading line
NamesNothing ==
  LET block == HeaderBlock(LinesOf(decodeBase64Url(requests[2].raw))) IN
  /\ FieldLines(block, STR_InReplyTo) = <<>>
  /\ FieldLines(block, STR_References) = <<>>

----------------------------------------------------------------------------
(* The codec on its own (specification SpecCodec)                          *)

\* most code units in a text handed to the codec
MaxUnits == 3

\* code units to build texts from: "A" (one byte in UTF-8), "é" (two bytes),
\* "€" (three), and the high and low surrogate of U+1F600 (four bytes as a pair)
CodecUnits == {65, 233, 8364, 55357, 56832}

\* the texts handed to the codec
CodecTexts == SeqsUpTo(CodecUnits, MaxUnits)

\* encodeBase64Url, then decodeBase64Url of what it returned
RoundTrip ==
  /\ pc = "idle"
  /\ \E data \in CodecTexts :
       LET encoded == encodeBase64Url(data) IN
       /\ call' = [op |-> "roundTrip", data |-> data, encoded |-> encoded]
       /\ result' = [ok |-> TRUE, value |-> decodeBase64Url(encoded)]
  /\ pc' = "done"
  /\ UNCHANGED <<impl, env, gmail, constructions, fetched, options, built, requests>>

NextCodec ==
  \/ RoundTrip
  \/ Return

SpecCodec == Init /\ [][NextCodec]_vars

\* a text has been encoded and decoded again
RoundTripped == pc = "done" /\ call.op = "roundTrip"

\* no surrogate of the text stands alone
IsWellFormed(s) ==
  \A i \in 1..Len(s) :
    /\ (s[i] \in 55296..56319) => (i < Len(s) /\ s[i + 1] \in 56320..57343)
    /\ (s[i] \in 56320..57343) => (i > 1 /\ s[i - 1] \in 55296..56319)

----------------------------------------------------------------------------
(* More properties of getMessage (specification SpecRead)                  *)

\* a Part that is text/plain or text/html and carries a payload
IsTextWithPayload(part) ==
  /\ Has(part, "mimeType") /\ part.mimeType \in {STR_textplain, STR_texthtml}
  /\ HasPayload(part)

\* the first non-empty text among the texts, "" when all are empty
FirstNonEmpty(texts) ==
  LET full == {i \in 1..Len(texts) : texts[i] # <<>>} IN
  IF full = {} THEN <<>> ELSE texts[MinOf(full)]

\* the body returned is the first non-empty body of the children, taken in order
IsFirstChildBody ==
  LET parts == fetched.payload.parts IN
  result.value.body = FirstNonEmpty([i \in 1..Len(parts) |-> extractBody(parts[i])])

\* the fetched payload has children, none of them text/plain or text/html
\* with a payload
NoTextChild ==
  /\ Decoded
  /\ Has(fetched.payload, "parts")
  /\ \A i \in 1..Len(fetched.payload.parts) : ~IsTextWithPayload(fetched.payload.parts[i])

----------------------------------------------------------------------------
(* stripHtmlTags on its own (specification SpecHtml)                       *)

\* most pieces in an HTML text
MaxPieces == 3

\* pieces to build HTML texts from: "A", " ", "<b>", and the line-break tags
\* "<br>", "<BR/>", "<br />", '<br class="x">'
HtmlPieces ==
  {<<65>>, <<32>>, <<60, 98, 62>>,
   <<60, 98, 114, 62>>, <<60, 66, 82, 47, 62>>, <<60, 98, 114, 32, 47, 62>>,
   <<60, 98, 114, 32, 99, 108, 97, 115, 115, 61, 34, 120, 34, 62>>}

\* the HTML texts, each as the list of its pieces
HtmlTexts == SeqsUpTo(HtmlPieces, MaxPieces)

\* stripHtmlTags applied to the concatenation of the pieces
StripHtml ==
  /\ pc = "idle"
  /\ \E pieces \in HtmlTexts :
       /\ call' = [op |-> "stripHtmlTags", pieces |-> pieces, html |-> Flatten(pieces)]
       /\ result' = [ok |-> TRUE, value |-> stripHtmlTags(Flatten(pieces))]
  /\ pc' = "done"
  /\ UNCHANGED <<impl, env, gmail, constructions, fetched, options, built, requests>>

NextHtml ==
  \/ StripHtml
  \/ Return

SpecHtml == Init /\ [][NextHtml]_vars

\* a piece is a tag: it opens with "<" and closes with ">"
IsTag(piece) == Len(piece) >= 2 /\ piece[1] = 60 /\ piece[Len(piece)] = 62

\* a piece is a br tag: "<br" in any letter case, then ">", "/" or white space
IsBrTag(piece) ==
  /\ IsTag(piece) /\ Len(piece) >= 4
  /\ piece[2] \in {66, 98} /\ piece[3] \in {82, 114}
  /\ piece[4] \in {32, 47, 62}

\* the text the pieces stand for: a line break for each br tag, nothing for
\* any other tag, the piece itself otherwise
RenderedPieces(pieces) ==
  Flatten([i \in 1..Len(pieces) |->
             IF IsBrTag(pieces[i]) THEN <<10>>
             ELSE IF IsTag(pieces[i]) THEN <<>>
             ELSE pieces[i]])

\* stripHtmlTags has returned for an HTML text that opens and closes with the
\* letter "A", so that the final trim() removes nothing
StrippedInside ==
  /\ pc = "done" /\ call.op = "stripHtmlTags"
  /\ Len(call.pieces) >= 2
  /\ call.pieces[1] = <<65>> /\ call.pieces[Len(call.pieces)] = <<65>>

\* C13: stripHtmlTags replaces every br tag (any letter case, self-closing or
\* not, with or without attributes) by exactly one line break, before tags
\* are stripped, so that no br tag goes without leaving a line break.
C13_EveryBrBecomesLineBreak ==
  StrippedInside => result.value = RenderedPieces(call.pieces)

----------------------------------------------------------------------------
(* The attachment part on its own (specification SpecWrap)                 *)

\* most bytes in an attachment file
MaxBytes == 116

\* the file of n bytes that starts with the byte first and goes on in steps of 37
FileBytes(n, first) == AsSeq([i \in 1..n |-> (first + 37 * (i - 1)) % 256])

\* the files attached: every length up to MaxBytes, starting with 0 or with 255
AttachedFiles == {FileBytes(n, first) : n \in 0..MaxBytes, first \in {0, 255}}

\* one pass of the loop "for (const filePath of options.attachments)" of
\* buildRawMessage, for a file with the given content
BuildAttachmentPart ==
  /\ pc = "idle"
  /\ \E content \in AttachedFiles :
       /\ call' = [op |-> "attachmentPart", filePath |-> PathPdf, content |-> content]
       /\ result' = [ok |-> TRUE,
                     value |-> AttachmentLines(Boundary(<<49>>, <<107>>), PathPdf, content)]
  /\ pc' = "done"
  /\ UNCHANGED <<impl, env, gmail, constructions, fetched, options, built, requests>>

NextWrap ==
  \/ BuildAttachmentPart
  \/ Return

SpecWrap == Init /\ [][NextWrap]_vars

\* the lines of an attachment part have been pushed
PartBuilt == pc = "done" /\ call.op = "attachmentPart"

\* the payload lines of the part: those after the blank line that ends the
\* part's headers and before the blank line that ends the part
PayloadLines ==
  LET lines == result.value
      blank == MinOf({k \in 1..Len(lines) : lines[k] = <<>>})
  IN SubSeq(lines, blank + 1, Len(lines) - 1)

\* a code unit of the standard base-64 alphabet
IsStandardUnit(c) == c \in (48..57) \cup (65..90) \cup (97..122) \cup {43, 47}

\* text is the padded standard base64 text of bytes
IsPaddedBase64Of(text, bytes) ==
  LET n == Len(bytes)
      pad == (3 - (n % 3)) % 3
  IN /\ Len(text) = 4 * ((n + 2) \div 3)
     /\ \A i \in 1..Len(text) :
          IF i > Len(text) - pad THEN text[i] = 61 ELSE IsStandardUnit(text[i])
     /\ Base64Decode(text) = bytes

\* C14: for an attachment of any length, 0 included, the payload lines are the
\* padded standard base64 text of the file's bytes cut into consecutive lines:
\* every line but the last has exactly 76 characters, the last has 1 to 76, no
\* line is empty, and the lines concatenated give the base64 text.
C14_PayloadWrappedAt76 ==
  PartBuilt =>
    LET payload == PayloadLines IN
    /\ result.value[Len(result.value)] = <<>>
    /\ IsPaddedBase64Of(Flatten(payload), call.content)
    /\ \A k \in 1..Len(payload) :
         /\ Len(payload[k]) >= 1 /\ Len(payload[k]) <= 76
         /\ k < Len(payload) => Len(payload[k]) = 76
    /\ (Len(call.content) = 0) <=> (payload = <<>>)

\* a file of 114 bytes has given exactly two full lines
C14_Witness ==
  /\ PartBuilt
  /\ Len(call.content) = 114
  /\ Len(PayloadLines) = 2
  /\ Len(PayloadLines[1]) = 76 /\ Len(PayloadLines[2]) = 76

----------------------------------------------------------------------------
(* getHeader on its own (specification SpecHeader)                         *)

\* headers to build header lists from: those of HeaderPool, a "SUBJECT"
\* header without value and a header without name
LookupPool ==
  HeaderPool
  \cup {[name |-> <<83, 85, 66, 74, 69, 67, 84>>], [value |-> <<120>>]}

\* the names asked for: "Subject", "subject", "Message-ID", "Date"
LookupNames ==
  {STR_SubjectName, <<115, 117, 98, 106, 101, 99, 116>>, STR_MessageID, STR_Date}

\* the header lists handed to getHeader: absent, or of at most MaxHeaders headers
LookupLists == {Undefined} \cup {Defined(hs) : hs \in SeqsUpTo(LookupPool, MaxHeaders)}

\* getHeader(headers, name)
GetHeader ==
  /\ pc = "idle"
  /\ \E headers \in LookupLists, name \in LookupNames :
       /\ call' = [op |-> "getHeader", headers |-> headers, name |-> name]
       /\ result' = [ok |-> TRUE, value |-> getHeader(headers, name)]
  /\ pc' = "done"
  /\ UNCHANGED <<impl, env, gmail, constructions, fetched, options, built, requests>>

NextHeader ==
  \/ GetHeader
  \/ Return

SpecHeader == Init /\ [][NextHeader]_vars

\* two names are equal but for the case of their letters A..Z
SameIgnoringCase(a, b) ==
  /\ Len(a) = Len(b)
  /\ \A i \in 1..Len(a) :
       (IF a[i] \in 65..90 THEN a[i] + 32 ELSE a[i]) = (IF b[i] \in 65..90 THEN b[i] + 32 ELSE b[i])

\* the positions of the headers in the list asked whose name is the name asked for
MatchingHeaders ==
  IF ~call.headers.defined THEN {}
  ELSE {i \in 1..Len(call.headers.value) :
          /\ Has(call.headers.value[i], "name")
          /\ SameIgnoringCase(call.headers.value[i].name, call.name)}

\* C15: getHeader returns the value of the first header, in the order of the
\* list, whose name is the requested name ignoring letter case, for every list
\* (lists with several headers of one name included), and the empty string
\* when no header matches or the list is absent.
C15_FirstMatchIgnoringCase ==
  (pc = "done" /\ call.op = "getHeader") =>
    IF MatchingHeaders = {} THEN result.value = <<>>
    ELSE LET first == call.headers.value[MinOf(MatchingHeaders)] IN
         result.value = (IF Has(first, "value") THEN first.value ELSE <<>>)

\* "subject" was asked of a list with two Subject headers after a header of
\* another name, and the first one's value "Hi" returned
C15_Witness ==
  /\ pc = "done" /\ call.op = "getHeader"
  /\ call.name = <<115, 117, 98, 106, 101, 99, 116>>
  /\ MatchingHeaders = {2, 3}
  /\ Has(call.headers.value[3], "value")
  /\ call.headers.value[3].value = <<82, 101, 58, 32, 72, 105>>
  /\ result.value = <<72, 105>>

----------------------------------------------------------------------------
(* listMessages (specification SpecList)                                   *)

\* most messages in a list response
MaxMessages == 3

\* a variant of PromiseAll that fulfils with the values in the order in which
\* the promises settled
PromiseAllAsSettled(promises, settled) ==
  LET rejected == {k \in 1..Len(settled) : ~promises[settled[k]].ok} IN
  IF rejected # {}
    THEN [state |-> "rejected",
          error |-> promises[settled[CHOOSE k \in rejected : \A j \in rejected : k <= j]].error]
  ELSE IF Len(settled) = Len(promises)
    THEN [state |-> "fulfilled",
          value |-> AsSeq([k \in 1..Len(settled) |-> promises[settled[k]].value])]
  ELSE [state |-> "pending"]

\* Promise.all(promises), the promises listed in settled having settled in that
\* order: rejected with the reason of the first promise that rejected, fulfilled
\* with the values in the order of promises once all are fulfilled
PromiseAll(promises, settled) ==
  LET rejected == {k \in 1..Len(settled) : ~promises[settled[k]].ok} IN
  IF rejected # {}
    THEN [state |-> "rejected",
          error |-> promises[settled[CHOOSE k \in rejected : \A j \in rejected : k <= j]].error]
  ELSE IF Len(settled) = Len(promises)
    THEN [state |-> "fulfilled",
          value |-> AsSeq([i \in 1..Len(promises) |-> promises[i].value])]
  ELSE [state |-> "pending"]

\* the ids of the messages in the mailbox, and the thread of each
MessageIds == {"m1", "m2", "m3", "m4"}
ThreadOf == ("m1" :> "t1") @@ ("m2" :> "t1") @@ ("m3" :> "t3") @@ ("m4" :> "t4")

\* the provider's answer to users.messages.get, format "metadata", for each
\* message: Subject "S1", "S2", "S3" after or before a From header; "m4" comes
\* without payload
DetailOf ==
  ("m1" :> [snippet |-> <<111, 110, 101>>,
            payload |-> [headers |-> <<[name |-> STR_SubjectName, value |-> <<83, 49>>],
                                       [name |-> STR_From, value |-> <<97, 64, 120>>]>>]])
  @@ ("m2" :> [snippet |-> <<116, 119, 111>>,
               payload |-> [headers |-> <<[name |-> STR_From, value |-> <<98, 64, 120>>],
                                          [name |-> STR_SubjectName, value |-> <<83, 50>>]>>]])
  @@ ("m3" :> [snippet |-> <<116, 104, 114, 101, 101>>,
               payload |-> [headers |-> <<[name |-> STR_SubjectName, value |-> <<83, 51>>]>>]])
  @@ ("m4" :> [snippet |-> <<>>])

\* the message lists of at most n messages, no message listed twice
MessageLists(n) ==
  {[i \in 1..Len(ids) |-> [id |-> ids[i], threadId |-> ThreadOf[ids[i]]]] :
     ids \in {l \in SeqsUpTo(MessageIds, n) : \A i, j \in 1..Len(l) : i # j => l[i] # l[j]}}

\* responses of users.messages.list: with or without messages, with or
\* without nextPageToken ("p2")
ListResponses ==
  {m @@ t : m \in Optional("messages", MessageLists(MaxMessages)),
            t \in Optional("nextPageToken", {<<112, 50>>})}

\* res.data.messages ?? []
ListedMessages(res) == IF Has(res, "messages") THEN res.messages ELSE <<>>

\* what one callback of messages.map returns for msg and the detail fetched for it
Summary(msg, detail) ==
  LET headers == ResponseHeaders(detail) IN
  [id |-> msg.id,
   threadId |-> msg.threadId,
   snippet |-> detail.snippet,
   subject |-> getHeader(headers, STR_SubjectName),
   from |-> getHeader(headers, STR_From),
   date |-> getHeader(headers, STR_Date)]

\* what listMessages returns once Promise.all is fulfilled with summaries
listMessagesResult(res, summaries) ==
  [messages |-> summaries,
   nextPageToken |-> IF Has(res, "nextPageToken") THEN res.nextPageToken ELSE [null |-> TRUE]]

\* a promise that has not settled
Pending == [pending |-> TRUE]

\* listMessages up to its first await: client(), then the messages.list request
ListMessages ==
  /\ pc = "idle"
  /\ Len(constructions) < MaxConstructions
  /\ call' = [op |-> "listMessages"]
  /\ LET c == client(gmail, env) IN
       /\ gmail' = c.gmail
       /\ constructions' = constructions \o c.constructed
       /\ IF c.ok
            THEN /\ requests' = <<[api |-> "users.messages.list"]>>
                 /\ pc' = "awaitList"
                 /\ result' = NoValue
            ELSE /\ requests' = <<>>
                 /\ pc' = "done"
                 /\ result' = Fail(c.error)
  /\ UNCHANGED <<impl, env, fetched, options, built>>

\* the list arrives: messages.map starts one callback per message, each calling
\* client() and issuing its messages.get request at once, in the order of the
\* list; Promise.all of no promise is fulfilled without waiting.  A callback
\* whose client() throws rejects its promise, and Promise.all with it.
ListResponse ==
  /\ pc = "awaitList"
  /\ \E res \in ListResponses :
       LET messages == ListedMessages(res)
           promises == AsSeq([i \in 1..Len(messages) |-> Pending])
           all == PromiseAll(promises, <<>>)
           c == clientEach(gmail, env, Len(messages))
       IN
         /\ gmail' = c.gmail
         /\ constructions' = constructions \o c.constructed
         /\ IF ~c.ok
              THEN /\ fetched' = [list |-> res, promises |-> <<>>, settled |-> <<>>]
                   /\ requests' = requests
                   /\ pc' = "done"
                   /\ result' = Fail(c.error)
            ELSE /\ fetched' = [list |-> res, promises |-> promises, settled |-> <<>>]
                 /\ requests' = requests \o
                                  AsSeq([i \in 1..Len(messages) |->
                                           [api |-> "users.messages.get",
                                            id |-> messages[i].id,
                                            format |-> "metadata"]])
                 /\ IF all.state = "fulfilled"
                      THEN /\ pc' = "done"
                           /\ result' = [ok |-> TRUE,
                                         value |-> listMessagesResult(res, all.value)]
                      ELSE /\ pc' = "awaitAll"
                           /\ result' = NoValue
  /\ UNCHANGED <<impl, env, call, options, built>>

\* the provider rejects the messages.list request
ListRejected ==
  /\ pc = "awaitList"
  /\ result' = Fail([code |-> "ProviderError"])
  /\ pc' = "done"
  /\ UNCHANGED <<impl, env, gmail, constructions, call, fetched, options, built, requests>>

\* one of the requests in flight is answered or rejected, in any order: its
\* callback returns its summary or throws, and Promise.all is fulfilled once the
\* last summary is there, rejected at the first throw.  What the requests still
\* in flight after a rejection bring is dropped.
DetailSettled ==
  /\ pc = "awaitAll"
  /\ \E i \in 1..Len(fetched.promises), answered \in BOOLEAN :
       /\ fetched.promises[i] = Pending
       /\ LET msg == ListedMessages(fetched.list)[i]
              promise == IF answered
                           THEN [ok |-> TRUE, value |-> Summary(msg, DetailOf[msg.id])]
                           ELSE Fail([code |-> "ProviderError", id |-> msg.id])
              promises == [fetched.promises EXCEPT ![i] = promise]
              settled == Append(fetched.settled, i)
              all == PromiseAll(promises, settled)
          IN
            /\ fetched' = [fetched EXCEPT !.promises = promises, !.settled = settled]
            /\ CASE all.state = "fulfilled" ->
                      /\ pc' = "done"
                      /\ result' = [ok |-> TRUE,
                                    value |-> listMessagesResult(fetched.list, all.value)]
                 [] all.state = "rejected" ->
                      /\ pc' = "done"
                      /\ result' = Fail(all.error)
                 [] OTHER ->
                      /\ pc' = "awaitAll"
                      /\ result' = NoValue
  /\ UNCHANGED <<impl, env, gmail, constructions, call, options, built, requests>>

NextList ==
  \/ ListMessages
  \/ ListResponse
  \/ ListRejected
  \/ DetailSettled
  \/ Return

SpecList == Init /\ [][NextList]_vars

\* the Subject of each message of the mailbox
SubjectOf ==
  ("m1" :> <<83, 49>>) @@ ("m2" :> <<83, 50>>) @@ ("m3" :> <<83, 51>>) @@ ("m4" :> <<>>)

\* listMessages has received its list
Listed == call # NoValue /\ call.op = "listMessages" /\ fetched # NoValue

\* the positions in the list whose metadata request was rejected
RejectedDetails ==
  {i \in 1..Len(fetched.promises) : fetched.promises[i] # Pending /\ ~fetched.promises[i].ok}

\* the summaries returned are those of the listed messages, one each, in the
\* order of the list
SummariesInListOrder ==
  LET messages == ListedMessages(fetched.list)
      summaries == result.value.messages
  IN /\ Len(summaries) = Len(messages)
     /\ \A i \in 1..Len(messages) :
          /\ summaries[i].id = messages[i].id
          /\ summaries[i].threadId = messages[i].threadId
          /\ summaries[i].subject = SubjectOf[messages[i].id]

\* C16: listMessages returns one summary per message id of the list response,
\* in the order of the list, whatever the order in which the metadata requests
\* issued together complete; if one of them fails, listMessages fails as a
\* whole and returns no partial result.
C16_SummariesInListOrder ==
  Listed =>
    LET messages == ListedMessages(fetched.list) IN
    /\ Len(requests) = 1 + Len(messages)
    /\ \A i \in 1..Len(messages) : requests[i + 1].id = messages[i].id
    /\ pc = "awaitAll" => (result = NoValue /\ RejectedDetails = {})
    /\ pc = "done" =>
         IF RejectedDetails # {}
           THEN ~result.ok /\ ~Has(result, "value")
           ELSE result.ok /\ SummariesInListOrder

\* three summaries were returned in the order of the list although the last
\* request was answered first
C16_Witness ==
  /\ Listed /\ pc = "done"
  /\ fetched.settled = <<3, 1, 2>>
  /\ result.ok
  /\ SummariesInListOrder

----------------------------------------------------------------------------
(* The cached client across API calls (client(), both modules)             *)

\* labels as the provider returns them; the last carries a property that
\* listLabels does not copy
LabelPool ==
  {[id |-> "INBOX", name |-> "INBOX", type |-> "system"],
   [id |-> "L1", name |-> "work", type |-> "user"],
   [id |-> "L2", name |-> "home", type |-> "user", messagesTotal |-> 4]}

\* responses of users.labels.list: data.labels absent, empty, or some labels
LabelResponses ==
  {[none |-> TRUE]} \cup
  {[labels |-> ls] :
     ls \in {<<>>} \cup {<<a>> : a \in LabelPool}
                  \cup {<<a, b>> : a \in LabelPool, b \in LabelPool}}

\* what listLabels returns: id, name and type of each label, in order
listLabelsResult(res) ==
  LET labels == IF Has(res, "labels") THEN res.labels ELSE <<>> IN
    AsSeq([i \in 1..Len(labels) |->
             [id |-> labels[i].id, name |-> labels[i].name, type |-> labels[i].type]])

\* listLabels up to its await: client(), then the labels.list request
ListLabels ==
  /\ pc = "idle"
  /\ Len(constructions) < MaxConstructions
  /\ call' = [op |-> "listLabels"]
  /\ LET c == client(gmail, env) IN
       /\ gmail' = c.gmail
       /\ constructions' = constructions \o c.constructed
       /\ IF c.ok
            THEN /\ requests' = <<[api |-> "users.labels.list"]>>
                 /\ pc' = "awaitLabels"
                 /\ result' = NoValue
            ELSE /\ requests' = <<>>
                 /\ pc' = "done"
                 /\ result' = Fail(c.error)
  /\ UNCHANGED <<impl, env, fetched, options, built>>

\* listLabels after its await: the labels are mapped and returned
LabelsResponse ==
  /\ pc = "awaitLabels"
  /\ \E res \in LabelResponses :
       /\ fetched' = res
       /\ result' = [ok |-> TRUE, value |-> listLabelsResult(res)]
  /\ pc' = "done"
  /\ UNCHANGED <<impl, env, gmail, constructions, call, options, built, requests>>

\* the API functions of the module that go through client(), one call after
\* another
NextClient ==
  \/ \E m \in {"m1"} : GetMessage(m)
  \/ GetMessageResponse
  \/ ListMessages
  \/ ListResponse
  \/ ListRejected
  \/ DetailSettled
  \/ ListLabels
  \/ LabelsResponse
  \/ SendMessage
  \/ CreateDraft
  \/ \E args \in ReplyArgs(impl) : ReplyToMessage(args)
  \/ \E b \in BoundaryChoices(impl, call) : ReplyFetched(b)
  \/ SendResponse
  \/ DraftResponse
  \/ ProviderError
  \/ Return

SpecClient == Init /\ [][NextClient]_vars

\* the getGmailClient() calls that returned a client
Constructed == {i \in DOMAIN constructions : constructions[i]}

\* the rejection of a call whose client() threw on the environment
MissingEnvironment == Fail([code |-> "MissingEnvironment"])

\* a step that starts an API call and gets as far as client(): sendMessage and
\* createDraft build the raw message first and stop there when a file is
\* unreadable
CallsClient ==
  /\ pc = "idle"
  /\ pc' # "idle"
  /\ ~(Has(built', "ok") /\ ~built'.ok)

\* C17: over any sequence of API calls of one module, getGmailClient()
\* returns a client at most once, the cache holds that client from then on
\* and no later client() call constructs again.  A call that reaches client()
\* with the cache unset and an environment variable missing rejects with the
\* environment error without issuing a request and leaves the cache unset, so
\* that the next call constructs again; with the environment complete it
\* constructs and caches the client.
C17_ClientConstructedOnce ==
  /\ [](Cardinality(Constructed) <= 1)
  /\ [](gmail = "unset" <=> Constructed = {})
  /\ [][gmail # "unset" => (gmail' = gmail /\ constructions' = constructions)]_vars
  /\ [][(CallsClient /\ gmail = "unset" /\ ~env) =>
          /\ constructions' = Append(constructions, FALSE)
          /\ gmail' = "unset"
          /\ pc' = "done"
          /\ result' = MissingEnvironment
          /\ requests' = <<>>]_vars
  /\ [][(CallsClient /\ gmail = "unset" /\ env) =>
          /\ constructions' = Append(constructions, TRUE)
          /\ gmail' = "client"]_vars

\* a second call in a row has failed on the environment: construction was
\* attempted again and the cache is still unset
C17_Witness ==
  /\ Len(constructions) >= 2
  /\ Constructed = {}
  /\ gmail = "unset"
  /\ pc = "done"
  /\ result = MissingEnvironment

\* replyToMessage has called client() a second time, for its send request, and
\* was handed the client constructed for its first request
ClientReused ==
  /\ pc = "awaitSend"
  /\ Has(call, "op")
  /\ call.op = "replyToMessage"
  /\ Len(requests) = 2
  /\ gmail = "client"
  /\ constructions = <<TRUE>>

====
